---- MODULE Spec2Model ----
(***************************************************************************)
(* A model of tools/python/ast_extractor.py: the ASTExtractor visitor, the *)
(* extract_functions entry point and the command-line main.                *)
(*                                                                         *)
(* A source file is a sequence of statements in lexical (pre-order) order: *)
(* statement i stands on line i and names its parent statement (0 is the   *)
(* Module).  The visitor is a state machine over an explicit stack of the  *)
(* visit calls that are in progress.                                       *)
(***************************************************************************)
EXTENDS Integers, Sequences, FiniteSets, TLC

\* ------------------------------------------------------------------ bounds
MaxNodes == 3
MaxArgs == 2
MaxKwOnly == 2
MaxPosOnly == 1

\* --------------------------------------------------------------- sentinels
NULL == "<null>"
NoFunction == 0
Module == 0

VARIABLES
    entry,              \* "main" or "extract_functions": how the run was entered
    argv_ok,            \* len(sys.argv) == 2
    file_state,         \* what reading and parsing the file does
    tree,               \* the statements of the file, in lexical order
    error_pos,          \* <<lineno, offset>> of the SyntaxError of a malformed file
    deep_at,            \* the statement nested too deeply for the visit, 0 when none
    pc,                 \* position in main / extract_functions
    stack,              \* visit calls in progress, innermost last
    functions,          \* ASTExtractor.functions
    current_function,   \* ASTExtractor.current_function (0 is None)
    return_statements,  \* ASTExtractor.return_statements
    exceptions,         \* ASTExtractor.exceptions
    has_io,             \* ASTExtractor.has_io
    has_global_mods,    \* ASTExtractor.has_global_mods
    lists_of,           \* the visit that made the two list objects that
                        \* return_statements and exceptions name (0: __init__)
    result,             \* the dict extract_functions returned
    stdout,             \* what main printed
    exit_code,          \* the status main exited with (0 when it fell off the end)
    params_in,          \* an ast.arguments handed to _extract_parameters
    params_out,         \* the list _extract_parameters returned
    other,              \* another call of extract_functions: finished, or suspended
    doc_models,         \* the doc model built for each descriptor compared so far
    diagnostics         \* the diagnostics the comparison engine has emitted

vars == <<entry, argv_ok, file_state, tree, error_pos, deep_at, pc, stack,
          functions, current_function, return_statements, exceptions, has_io,
          has_global_mods, lists_of, result, stdout, exit_code, params_in,
          params_out, other, doc_models, diagnostics>>

visitor_vars == <<stack, functions, current_function, return_statements,
                  exceptions, has_io, has_global_mods, lists_of>>

\* ------------------------------------------------------------- expressions
AbsentExpr == [kind |-> "Absent", fkind |-> "", name |-> ""]

NameExpr(id) == [kind |-> "Name", fkind |-> "", name |-> id]

\* a call f(...) (fkind "Name") or obj.attr(...) (fkind "Attribute")
CallExpr(fk, nm) == [kind |-> "Call", fkind |-> fk, name |-> nm]

\* an attribute reference obj.attr that is not called
AttributeExpr(nm) == [kind |-> "Attribute", fkind |-> "", name |-> nm]

\* a subscript obj[0]; a call obj[0](...) is CallExpr("Subscript", "")
SubscriptExpr == [kind |-> "Subscript", fkind |-> "", name |-> ""]

\* a literal constant: fkind is type(node.value).__name__
ConstantExpr(tn) == [kind |-> "Constant", fkind |-> tn, name |-> ""]

\* an expression of any other node class k, e.g. List, BinOp, Yield
OtherExpr(k) == [kind |-> k, fkind |-> "", name |-> ""]

\* a str constant whose value is v
StrExpr(v) == [kind |-> "Constant", fkind |-> "str", name |-> v]

\* the annotation after the -> of a def, given by its source spelling
AnnotationExpr(src) == [kind |-> "Annotation", fkind |-> "", name |-> src]

\* ast.unparse of the func of a Call
func_to_string(e) ==
    CASE e.fkind = "Name" -> e.name
      [] e.fkind = "Attribute" -> "obj." \o e.name
      [] OTHER -> "obj[0]"

\* ast.unparse of the expressions a raise statement is given
_ast_to_string(e) ==
    CASE e.kind = "Name" -> e.name
      [] e.kind = "Attribute" -> "obj." \o e.name
      [] e.kind = "Subscript" -> "obj[0]"
      [] e.kind = "Call" -> func_to_string(e) \o "()"
      [] OTHER -> ""

\* --------------------------------------------------------------- arguments
\* an ast.arg: its name and the source spelling of its annotation (or NULL)
Arg(nm, ann) == [arg |-> nm, annotation |-> ann]

\* an ast.arguments; vararg and kwarg hold zero or one ast.arg, defaults and
\* kw_defaults hold the source spelling of each default (NULL: no default)
NoArguments ==
    [posonlyargs |-> <<>>, args |-> <<>>, defaults |-> <<>>, vararg |-> <<>>,
     kwonlyargs |-> <<>>, kw_defaults |-> <<>>, kwarg |-> <<>>]

\* def f(self, x=1)
MethodArguments ==
    [NoArguments EXCEPT !.args = <<Arg("self", NULL), Arg("x", NULL)>>,
                        !.defaults = <<"1">>]

\* ast.unparse of a default expression, given by its source spelling
unparse_default(src) ==
    CASE src = "(1)" -> "1"
      [] src = "\"a\"" -> "'a'"
      [] OTHER -> src

ParameterDescriptor(n, t, d, o) ==
    [name |-> n, type |-> t, default_value |-> d, is_optional |-> o]

_extract_annotation(annotation) ==
    IF annotation = NULL THEN NULL ELSE annotation

\* the body of the loop over args.args, for the i-th of them (1-based)
regular_parameter(a, i) ==
    LET defaults_offset == Len(a.args) - Len(a.defaults)
        default_idx == i - defaults_offset
        param_type == _extract_annotation(a.args[i].annotation)
    IN  IF default_idx >= 1
        THEN ParameterDescriptor(a.args[i].arg, param_type,
                                 unparse_default(a.defaults[default_idx]), TRUE)
        ELSE ParameterDescriptor(a.args[i].arg, param_type, NULL, FALSE)

\* the `continue` of the loop over args.args
skip_regular(a, i) == a.args[i].arg = "self" \/ a.args[i].arg = "cls"

RECURSIVE regular_parameters(_, _)
regular_parameters(a, i) ==
    IF i > Len(a.args) THEN <<>>
    ELSE IF skip_regular(a, i) THEN regular_parameters(a, i + 1)
    ELSE <<regular_parameter(a, i)>> \o regular_parameters(a, i + 1)

vararg_parameters(a) ==
    IF a.vararg # <<>>
    THEN <<ParameterDescriptor("*" \o a.vararg[1].arg,
                               _extract_annotation(a.vararg[1].annotation), NULL, TRUE)>>
    ELSE <<>>

\* the dict comprehension over zip(kwonlyargs, kw_defaults): keyed by name,
\* a later entry with the same key overwrites an earlier one
kw_defaults_map(a) ==
    LET with_default == {k \in 1..Len(a.kwonlyargs) : a.kw_defaults[k] # NULL}
    IN  [nm \in {a.kwonlyargs[k].arg : k \in with_default} |->
            LET ks == {k \in with_default : a.kwonlyargs[k].arg = nm}
                last == CHOOSE k \in ks : \A m \in ks : m <= k
            IN  a.kw_defaults[last]]

kwonly_parameter(a, j) ==
    LET m == kw_defaults_map(a)
        kwarg == a.kwonlyargs[j]
    IN  IF kwarg.arg \in DOMAIN m
        THEN ParameterDescriptor(kwarg.arg, _extract_annotation(kwarg.annotation),
                                 unparse_default(m[kwarg.arg]), TRUE)
        ELSE ParameterDescriptor(kwarg.arg, _extract_annotation(kwarg.annotation),
                                 NULL, FALSE)

kwonly_parameters(a) == [j \in 1..Len(a.kwonlyargs) |-> kwonly_parameter(a, j)]

kwarg_parameters(a) ==
    IF a.kwarg # <<>>
    THEN <<ParameterDescriptor("**" \o a.kwarg[1].arg,
                               _extract_annotation(a.kwarg[1].annotation), NULL, TRUE)>>
    ELSE <<>>

_extract_parameters_kwonly_first(a) ==
    regular_parameters(a, 1) \o kwonly_parameters(a)
        \o vararg_parameters(a) \o kwarg_parameters(a)

_extract_parameters(a) ==
    regular_parameters(a, 1) \o vararg_parameters(a)
        \o kwonly_parameters(a) \o kwarg_parameters(a)

\* ------------------------------------------------------------------- trees
FunctionKinds == {"FunctionDef", "AsyncFunctionDef"}

\* ClassDef stands for every compound statement NodeVisitor has no visit_
\* method for (class, if, for, while, with, try): generic_visit walks its body
ContainerKinds == FunctionKinds \cup {"ClassDef"}

\* expr is the value of a return, raise or expression statement and the
\* returns annotation of a def (AbsentExpr: none)
Stmt(k, e, a) == [kind |-> k, parent |-> Module, expr |-> e, args |-> a]

ContainerStmts == {Stmt(k, AbsentExpr, IF k \in FunctionKinds THEN MethodArguments ELSE NoArguments) :
                      k \in ContainerKinds}

LeafStmts ==
    { Stmt("Return", NameExpr("x"), NoArguments),
      Stmt("Return", CallExpr("Attribute", "read"), NoArguments),
      Stmt("Raise", AbsentExpr, NoArguments),
      Stmt("Raise", NameExpr("E"), NoArguments),
      Stmt("Expr", CallExpr("Name", "print"), NoArguments),
      Stmt("Expr", CallExpr("Name", "len"), NoArguments),
      Stmt("Global", AbsentExpr, NoArguments),
      Stmt("Nonlocal", AbsentExpr, NoArguments) }

Stmts == ContainerStmts \cup LeafStmts

RECURSIVE AncestorsOrSelf(_, _)
AncestorsOrSelf(t, n) ==
    IF n = Module THEN {} ELSE {n} \cup AncestorsOrSelf(t, t[n].parent)

\* the statement after the statements of t is a child of the Module or of a
\* compound statement that is still open after the last statement of t
OpenParents(t) ==
    {Module} \cup {p \in AncestorsOrSelf(t, Len(t)) : t[p].kind \in ContainerKinds}

\* a statement of a file of n statements, with the statement it stands in
PlacedStmts(n) == {[s EXCEPT !.parent = p] : s \in Stmts, p \in 0..(n - 1)}

WellPlaced(t) ==
    \A k \in 1..Len(t) : t[k].parent \in OpenParents(SubSeq(t, 1, k - 1))

TreesOfLen(n) == {t \in [1..n -> PlacedStmts(n)] : WellPlaced(t)}

Trees == UNION {TreesOfLen(n) : n \in 0..MaxNodes}

\* the statements tried as the first statement of a one-level body: every
\* form of return value _infer_type tells apart, every form of raised
\* expression, calls by name, by attribute and of a computed callee, yields
ConstantTypes ==
    {"str", "int", "float", "bool", "NoneType", "bytes", "complex", "ellipsis"}

LiteralContainers == {"List", "Dict", "Set", "Tuple"}

ComputedKinds == {"BinOp", "UnaryOp", "JoinedStr", "ListComp"}

ReturnValues ==
    {AbsentExpr, NameExpr("x"), SubscriptExpr, CallExpr("Name", "len"),
     CallExpr("Attribute", "read")}
        \cup {ConstantExpr(tn) : tn \in ConstantTypes}
        \cup {OtherExpr(k) : k \in LiteralContainers \cup ComputedKinds}

RaisedValues ==
    {AbsentExpr, NameExpr("E"), CallExpr("Name", "E"), AttributeExpr("E"),
     CallExpr("Attribute", "E"), SubscriptExpr, CallExpr("Subscript", "")}

ExprValues ==
    {CallExpr("Name", "print"), CallExpr("Name", "input"), CallExpr("Name", "len"),
     CallExpr("Attribute", "write"), CallExpr("Attribute", "open"),
     CallExpr("Attribute", "append"), CallExpr("Subscript", ""),
     OtherExpr("Yield"), OtherExpr("YieldFrom")}

BodyStmts ==
    {Stmt("Return", e, NoArguments) : e \in ReturnValues}
        \cup {Stmt("Raise", e, NoArguments) : e \in RaisedValues}
        \cup {Stmt("Expr", e, NoArguments) : e \in ExprValues}
        \cup {Stmt("Global", AbsentExpr, NoArguments),
              Stmt("Nonlocal", AbsentExpr, NoArguments)}

\* the statements tried after the first one: return "done", return, yield
TailStmts ==
    {Stmt("Return", ConstantExpr("str"), NoArguments),
     Stmt("Return", AbsentExpr, NoArguments),
     Stmt("Expr", OtherExpr("Yield"), NoArguments)}

RECURSIVE BodiesOfLen(_)
BodiesOfLen(n) ==
    IF n = 0 THEN {<<>>}
    ELSE IF n = 1 THEN {<<s>> : s \in BodyStmts}
    ELSE {Append(b, s) : b \in BodiesOfLen(n - 1), s \in TailStmts}

\* the files made of one def, async def or class at module level whose body
\* is a sequence of simple statements
FlatTrees ==
    { <<c>> \o [i \in 1..Len(b) |-> [b[i] EXCEPT !.parent = 1]] :
        c \in ContainerStmts,
        b \in UNION {BodiesOfLen(n) : n \in 0..(MaxNodes - 1)} }

\* the same with a def, async def or class d nested in the first one: the
\* first j simple statements stand in d, the others after d
NestedTrees ==
    UNION { { <<c, [d EXCEPT !.parent = 1]>>
                \o [i \in 1..Len(b) |-> [b[i] EXCEPT !.parent = IF i <= j THEN 2 ELSE 1]] :
                c \in ContainerStmts, d \in ContainerStmts, j \in 0..Len(b) } :
            b \in UNION {BodiesOfLen(n) : n \in 0..(MaxNodes - 2)} }

BodyTrees == {<<>>} \cup FlatTrees \cup NestedTrees

Lines == 1..Len(tree)

Children(n) == {c \in Lines : tree[c].parent = n}

\* the child of n that follows statement `last` in n's body, 0 when there is none
NextChild(n, last) ==
    LET later == {c \in Children(n) : c > last}
    IN  IF later = {} THEN 0 ELSE CHOOSE c \in later : \A d \in later : c <= d

\* ----------------------------------------------------------- the visitor
ReturnDescriptor(t, l) == [type |-> t, line |-> l]

ExceptionDescriptor(t, l) == [type |-> t, line |-> l]

\* _infer_type that takes a unary minus for the number it is applied to
_infer_type_guesses(e) ==
    CASE e.kind = "Absent" -> "None"
      [] e.kind = "Constant" -> IF e.fkind = "NoneType" THEN "None" ELSE e.fkind
      [] e.kind = "UnaryOp" -> "int"
      [] e.kind = "List" -> "list"
      [] e.kind = "Dict" -> "dict"
      [] e.kind = "Set" -> "set"
      [] e.kind = "Tuple" -> "tuple"
      [] OTHER -> NULL

\* fkind of a Constant is type(node.value).__name__
_infer_type(e) ==
    CASE e.kind = "Absent" -> "None"
      [] e.kind = "Constant" -> IF e.fkind = "NoneType" THEN "None" ELSE e.fkind
      [] e.kind = "Name" -> NULL
      [] e.kind = "List" -> "list"
      [] e.kind = "Dict" -> "dict"
      [] e.kind = "Set" -> "set"
      [] e.kind = "Tuple" -> "tuple"
      [] OTHER -> NULL

\* _extract_exception_type that resolves a name and a call on a name only
_extract_exception_type_names_only(exc) ==
    CASE exc.kind = "Name" -> exc.name
      [] exc.kind = "Call" /\ exc.fkind = "Name" -> exc.name
      [] OTHER -> ""

_extract_exception_type(exc) ==
    CASE exc.kind = "Name" -> exc.name
      [] exc.kind = "Call" -> func_to_string(exc)
      [] OTHER -> _ast_to_string(exc)

_get_call_name(e) ==
    IF e.fkind = "Name" \/ e.fkind = "Attribute" THEN e.name ELSE NULL

io_functions == {"open", "read", "write", "print", "input"}

file_operations == {"read", "write", "close", "readline", "readlines", "writelines"}

\* visit_Call that matches calls by plain name only
visit_Call_names_only(e) ==
    IF current_function # NoFunction
    THEN has_io \/ (e.fkind = "Name" /\ e.name \in io_functions)
    ELSE has_io

\* has_io after visit_Call of the call e
visit_Call(e) ==
    IF current_function # NoFunction
    THEN \/ has_io
         \/ _get_call_name(e) \in io_functions
         \/ (e.fkind = "Attribute" /\ e.name \in file_operations)
    ELSE has_io

\* has_io after generic_visit reaches the expression of a statement
visit_expression(e) == IF e.kind = "Call" THEN visit_Call(e) ELSE has_io

\* lines 142-146: the prev_ locals
SavedContext ==
    [current_function |-> current_function,
     return_statements |-> return_statements,
     exceptions |-> exceptions,
     has_io |-> has_io,
     has_global_mods |-> has_global_mods,
     lists_of |-> lists_of]

\* ResetContext without the reset of the two flags
ResetContext_keeps_flags(node) ==
    [current_function |-> node,
     return_statements |-> <<>>,
     exceptions |-> <<>>,
     has_io |-> has_io,
     has_global_mods |-> has_global_mods,
     lists_of |-> node]

\* lines 149-153
ResetContext(node) ==
    [current_function |-> node,
     return_statements |-> <<>>,
     exceptions |-> <<>>,
     has_io |-> FALSE,
     has_global_mods |-> FALSE,
     lists_of |-> node]

\* RestoreContext without the restore of the two flags
RestoreContext_keeps_flags(prev) ==
    [prev EXCEPT !.has_io = has_io, !.has_global_mods = has_global_mods]

\* RestoreContext without the restore of the two lists
RestoreContext_keeps_lists(prev) ==
    [prev EXCEPT !.return_statements = return_statements,
                 !.exceptions = exceptions,
                 !.lists_of = lists_of]

\* lines 188-192
RestoreContext(prev) == prev

SetContext(c) ==
    /\ current_function' = c.current_function
    /\ return_statements' = c.return_statements
    /\ exceptions' = c.exceptions
    /\ has_io' = c.has_io
    /\ has_global_mods' = c.has_global_mods
    /\ lists_of' = c.lists_of

context_vars == <<current_function, return_statements, exceptions, has_io,
                  has_global_mods, lists_of>>

\* one visit call in progress: the node, the last child of it already
\* visited, and the locals of visit_FunctionDef
Frame(node, prev, parameters) ==
    [node |-> node, last |-> node, prev |-> prev, parameters |-> parameters]

Top == stack[Len(stack)]

Pop == SubSeq(stack, 1, Len(stack) - 1)

\* the call stack once the visit of child c of the top frame has been entered
Advance(c) == [stack EXCEPT ![Len(stack)].last = c]

Visiting == pc = "visit" /\ stack # <<>>

\* the statement the loop over the body of the top frame visits next
Next_child == NextChild(Top.node, Top.last)

\* the loop has a next statement c, and the visit of c does not exceed the
\* interpreter's recursion limit
Visitable(c) == c # 0 /\ c # deep_at

\* body_visited that lets the loop over the body end at any point
body_visited_early(frame) == TRUE

\* the loop over node.body (lines 165-166) has visited every child
body_visited(frame) == NextChild(frame.node, frame.last) = 0

\* ast.unparse of a return annotation
unparse_annotation(src) ==
    CASE src = "str|None" -> "str | None"
      [] OTHER -> src

\* lines 326-330; the annotation of a def is never a falsy node
_extract_return_type(node) ==
    IF node.expr.kind # "Absent"
    THEN _extract_annotation(unparse_annotation(node.expr.name))
    ELSE NULL

\* the first statement of the body of f, 0 when the file shows none
FirstChild(t, f) ==
    LET body == {c \in 1..Len(t) : t[c].parent = f}
    IN  IF body = {} THEN 0 ELSE CHOOSE c \in body : \A d \in body : c <= d

\* the last line of statement n: every statement is on its own line, a
\* string of several lines has one "Line" statement per further line
end_lineno(t, n) ==
    LET within == {m \in 1..Len(t) : n \in AncestorsOrSelf(t, m)}
    IN  CHOOSE m \in within : \A k \in within : k <= m

\* inspect.cleandoc: the first line loses its leading blanks, the other
\* lines their common indentation, and empty lines at both ends are dropped;
\* a line of blanks only is not empty unless the indentation of another
\* line is taken from it
cleandoc(v) ==
    CASE v = "   " -> ""
      [] v = "\n    " -> "    "
      [] v = "\n    text\n    " -> "text"
      [] OTHER -> v

\* ast.get_docstring(node), NULL standing for None
get_docstring(t, f) ==
    LET c == FirstChild(t, f)
    IN  IF c = 0 THEN NULL
        ELSE IF t[c].kind = "Expr" /\ t[c].expr.kind = "Constant" /\ t[c].expr.fkind = "str"
        THEN cleandoc(t[c].expr.name)
        ELSE NULL

NoLine == 0

\* lines 338-359: <<docstring, doc_start, doc_end>>
_extract_docstring(t, f) ==
    LET docstring == get_docstring(t, f)
        c == FirstChild(t, f)
    IN  IF docstring = NULL \/ docstring = ""
        THEN <<NULL, NoLine, NoLine>>
        ELSE IF c # 0 /\ t[c].kind = "Expr" /\ t[c].expr.kind = "Constant"
        THEN <<docstring, c, end_lineno(t, c)>>
        ELSE <<docstring, NoLine, NoLine>>

\* lines 169-184; return_type and the docstring triple are the locals set
\* in lines 159 and 162 from the node alone
func_info(frame) ==
    [line_start |-> frame.node,
     line_end |-> end_lineno(tree, frame.node),
     return_type |-> _extract_return_type(tree[frame.node]),
     docstring |-> _extract_docstring(tree, frame.node)[1],
     docstring_line_start |-> _extract_docstring(tree, frame.node)[2],
     docstring_line_end |-> _extract_docstring(tree, frame.node)[3],
     parameters |-> frame.parameters,
     return_statements |-> return_statements,
     raises |-> exceptions,
     lists |-> lists_of,
     has_io |-> has_io,
     has_global_mods |-> has_global_mods]

\* append_function that puts the new descriptor first
append_function_prepends(fs, info) == <<info>> \o fs

\* append_function that keeps top-level definitions only
append_function_top_level(fs, info) ==
    IF Top.prev.current_function = NoFunction THEN Append(fs, info) ELSE fs

\* line 185
append_function(fs, info) == Append(fs, info)

\* lines 141-162 of visit_FunctionDef: save, reset, extract
enter_FunctionDef(c) ==
    /\ stack' = Append(Advance(c), Frame(c, SavedContext, _extract_parameters(tree[c].args)))
    /\ SetContext(ResetContext(c))
    /\ UNCHANGED functions

visit_FunctionDef ==
    /\ Visiting /\ Visitable(Next_child)
    /\ tree[Next_child].kind = "FunctionDef"
    /\ enter_FunctionDef(Next_child)
    /\ UNCHANGED <<doc_models, diagnostics, other, error_pos, deep_at, entry, argv_ok, file_state, tree, pc, result, stdout, exit_code, params_in, params_out>>

visit_AsyncFunctionDef ==
    /\ Visiting /\ Visitable(Next_child)
    /\ tree[Next_child].kind = "AsyncFunctionDef"
    /\ enter_FunctionDef(Next_child)
    /\ UNCHANGED <<doc_models, diagnostics, other, error_pos, deep_at, entry, argv_ok, file_state, tree, pc, result, stdout, exit_code, params_in, params_out>>

\* lines 168-192 of visit_FunctionDef: the loop over the body is over
visit_FunctionDef_return ==
    /\ Visiting
    /\ IF Top.node = Module THEN FALSE ELSE tree[Top.node].kind \in FunctionKinds
    /\ body_visited(Top)
    /\ functions' = append_function(functions, func_info(Top))
    /\ SetContext(RestoreContext(Top.prev))
    /\ stack' = Pop
    /\ UNCHANGED <<doc_models, diagnostics, other, error_pos, deep_at, entry, argv_ok, file_state, tree, pc, result, stdout, exit_code, params_in, params_out>>

\* NodeVisitor.generic_visit of a compound statement without a visit_ method
generic_visit ==
    /\ Visiting /\ Visitable(Next_child)
    /\ tree[Next_child].kind = "ClassDef"
    /\ stack' = Append(Advance(Next_child), Frame(Next_child, SavedContext, <<>>))
    /\ UNCHANGED <<functions, context_vars>>
    /\ UNCHANGED <<doc_models, diagnostics, other, error_pos, deep_at, entry, argv_ok, file_state, tree, pc, result, stdout, exit_code, params_in, params_out>>

\* generic_visit of a compound statement or of the Module is over
generic_visit_return ==
    /\ Visiting
    /\ IF Top.node = Module THEN TRUE ELSE tree[Top.node].kind = "ClassDef"
    /\ Next_child = 0
    /\ stack' = Pop
    /\ UNCHANGED <<functions, context_vars>>
    /\ UNCHANGED <<doc_models, diagnostics, other, error_pos, deep_at, entry, argv_ok, file_state, tree, pc, result, stdout, exit_code, params_in, params_out>>

\* list.append changes the list object: every descriptor of fs that holds
\* the object the visitor appends to shows the new contents l in its field
in_place(fs, field, l) ==
    [i \in 1..Len(fs) |->
        IF fs[i].lists = lists_of THEN [fs[i] EXCEPT ![field] = l] ELSE fs[i]]

\* returns_after that records the first return statement of a function only
returns_after_first_only(c) ==
    IF current_function # NoFunction /\ return_statements = <<>>
    THEN <<ReturnDescriptor(IF tree[c].expr.kind # "Absent"
                            THEN _infer_type(tree[c].expr) ELSE "None", c)>>
    ELSE return_statements

returns_after(c) ==
    IF current_function # NoFunction
    THEN Append(return_statements,
                ReturnDescriptor(IF tree[c].expr.kind # "Absent"
                                 THEN _infer_type(tree[c].expr) ELSE "None", c))
    ELSE return_statements

visit_Return ==
    /\ Visiting /\ Visitable(Next_child)
    /\ tree[Next_child].kind = "Return"
    /\ return_statements' = returns_after(Next_child)
    /\ functions' = in_place(functions, "return_statements", returns_after(Next_child))
    /\ has_io' = visit_expression(tree[Next_child].expr)
    /\ stack' = Advance(Next_child)
    /\ UNCHANGED <<current_function, exceptions, has_global_mods, lists_of>>
    /\ UNCHANGED <<doc_models, diagnostics, other, error_pos, deep_at, entry, argv_ok, file_state, tree, pc, result, stdout, exit_code, params_in, params_out>>

raises_after(c) ==
    IF current_function # NoFunction /\ tree[c].expr.kind # "Absent"
    THEN LET exc_type == _extract_exception_type(tree[c].expr)
         IN  IF exc_type # ""
             THEN Append(exceptions, ExceptionDescriptor(exc_type, c))
             ELSE exceptions
    ELSE exceptions

visit_Raise ==
    /\ Visiting /\ Visitable(Next_child)
    /\ tree[Next_child].kind = "Raise"
    /\ exceptions' = raises_after(Next_child)
    /\ functions' = in_place(functions, "raises", raises_after(Next_child))
    /\ has_io' = visit_expression(tree[Next_child].expr)
    /\ stack' = Advance(Next_child)
    /\ UNCHANGED <<current_function, return_statements, has_global_mods, lists_of>>
    /\ UNCHANGED <<doc_models, diagnostics, other, error_pos, deep_at, entry, argv_ok, file_state, tree, pc, result, stdout, exit_code, params_in, params_out>>

\* an expression statement: generic_visit reaches its value
visit_Expr ==
    /\ Visiting /\ Visitable(Next_child)
    /\ tree[Next_child].kind = "Expr"
    /\ has_io' = visit_expression(tree[Next_child].expr)
    /\ stack' = Advance(Next_child)
    /\ UNCHANGED <<functions, current_function, return_statements, exceptions, has_global_mods, lists_of>>
    /\ UNCHANGED <<doc_models, diagnostics, other, error_pos, deep_at, entry, argv_ok, file_state, tree, pc, result, stdout, exit_code, params_in, params_out>>

\* global_mods_after that ignores the declaration
global_mods_after_ignored == has_global_mods

global_mods_after == IF current_function # NoFunction THEN TRUE ELSE has_global_mods

visit_Global ==
    /\ Visiting /\ Visitable(Next_child)
    /\ tree[Next_child].kind = "Global"
    /\ has_global_mods' = global_mods_after
    /\ stack' = Advance(Next_child)
    /\ UNCHANGED <<functions, current_function, return_statements, exceptions, has_io, lists_of>>
    /\ UNCHANGED <<doc_models, diagnostics, other, error_pos, deep_at, entry, argv_ok, file_state, tree, pc, result, stdout, exit_code, params_in, params_out>>

visit_Nonlocal ==
    /\ Visiting /\ Visitable(Next_child)
    /\ tree[Next_child].kind = "Nonlocal"
    /\ has_global_mods' = global_mods_after
    /\ stack' = Advance(Next_child)
    /\ UNCHANGED <<functions, current_function, return_statements, exceptions, has_io, lists_of>>
    /\ UNCHANGED <<doc_models, diagnostics, other, error_pos, deep_at, entry, argv_ok, file_state, tree, pc, result, stdout, exit_code, params_in, params_out>>

\* ------------------------------------------------- extract_functions, main
ParameterDict(p) ==
    [name |-> p.name, type |-> p.type,
     defaultValue |-> p.default_value, isOptional |-> p.is_optional]

\* docstring_range that leaves the end line 1-based
docstring_range_end_one_based(f) ==
    IF f.docstring_line_start # NoLine /\ f.docstring_line_end # NoLine
    THEN <<f.docstring_line_start - 1, f.docstring_line_end>>
    ELSE <<>>

\* lines 105-110: docstring_range, <<>> standing for None, else the start
\* line and the end line
docstring_range(f) ==
    IF f.docstring_line_start # NoLine /\ f.docstring_line_end # NoLine
    THEN <<f.docstring_line_start - 1, f.docstring_line_end - 1>>
    ELSE <<>>

\* FunctionDescriptor.to_dict; range_start_line is range.start.line and
\* range_end_line is range.end.line
to_dict(f) ==
    [range_start_line |-> f.line_start - 1,
     range_end_line |-> f.line_end - 1,
     returnType |-> f.return_type,
     docstring |-> f.docstring,
     docstringRange |-> docstring_range(f),
     parameters |-> [i \in 1..Len(f.parameters) |-> ParameterDict(f.parameters[i])],
     returnStatements |-> f.return_statements,
     raises |-> f.raises,
     hasIO |-> f.has_io,
     hasGlobalMods |-> f.has_global_mods]

\* a result dict: keys is the set of keys it has, the other fields are the
\* values of those keys
NoResult ==
    [keys |-> {}, success |-> FALSE, error |-> "", line |-> 0, offset |-> 0,
     functions |-> <<>>]

success_result(fs) ==
    [NoResult EXCEPT !.keys = {"success", "file", "functions"},
                     !.success = TRUE,
                     !.functions = [i \in 1..Len(fs) |-> to_dict(fs[i])]]

syntax_error_result(lineno, off) ==
    [NoResult EXCEPT !.keys = {"success", "error", "message", "line", "offset"},
                     !.error = "SyntaxError", !.line = lineno, !.offset = off]

\* error_result that says "Error" whatever the exception is
error_result_fixed_kind(name) ==
    [NoResult EXCEPT !.keys = {"success", "error", "message"}, !.error = "Error"]

\* a dict with success, error and message: the `except Exception` handler
\* builds one, and main builds two itself
error_result(name) ==
    [NoResult EXCEPT !.keys = {"success", "error", "message"}, !.error = name]

\* what reading and parsing the file does: "ok", or the class of the
\* exception Path.read_text or ast.parse raises
ReadErrors == {"FileNotFoundError", "UnicodeDecodeError"}

\* ast.parse raises SyntaxError or a subclass of it on malformed text, and
\* RecursionError on text nested too deeply for it
ParseErrors == {"SyntaxError", "IndentationError", "RecursionError"}

FileStates == {"ok"} \cup ReadErrors \cup ParseErrors

\* issubclass(cls, SyntaxError)
is_SyntaxError(cls) == cls \in {"SyntaxError", "IndentationError"}

\* is_Exception of a handler written `except OSError`
is_Exception_OSError(cls) == cls \in {"FileNotFoundError"}

\* issubclass(cls, Exception)
is_Exception(cls) ==
    cls \in {"SyntaxError", "IndentationError", "FileNotFoundError",
             "UnicodeDecodeError", "RecursionError"}

\* an exception of class cls raised in the try block meets an except clause
caught(cls) == is_SyntaxError(cls) \/ is_Exception(cls)

\* except_result without the `except SyntaxError` clause
except_result_one_clause(cls, lineno, off) == error_result(cls)

\* the dict the except clause that catches cls returns
except_result(cls, lineno, off) ==
    IF is_SyntaxError(cls)
    THEN syntax_error_result(lineno, off)
    ELSE error_result(cls)

\* what extract_functions has returned after an exception of class cls
result_after_raise(cls, lineno, off) ==
    IF caught(cls) THEN except_result(cls, lineno, off) ELSE result

\* extract_functions after an exception of class cls in its try block
pc_after_raise(cls) == IF caught(cls) THEN "returned" ELSE "raised"

main_invalid_arguments ==
    /\ pc = "main" /\ ~argv_ok
    /\ stdout' = error_result("InvalidArguments")
    /\ exit_code' = 1
    /\ pc' = "exit"
    /\ UNCHANGED <<doc_models, diagnostics, other, error_pos, deep_at, entry, argv_ok, file_state, tree, result, visitor_vars, params_in, params_out>>

main_file_not_found ==
    /\ pc = "main" /\ argv_ok
    /\ file_state = "FileNotFoundError"
    /\ stdout' = error_result("FileNotFound")
    /\ exit_code' = 1
    /\ pc' = "exit"
    /\ UNCHANGED <<doc_models, diagnostics, other, error_pos, deep_at, entry, argv_ok, file_state, tree, result, visitor_vars, params_in, params_out>>

main_call ==
    /\ pc = "main" /\ argv_ok
    /\ file_state # "FileNotFoundError"
    /\ pc' = "extract_functions"
    /\ UNCHANGED <<doc_models, diagnostics, other, error_pos, deep_at, entry, argv_ok, file_state, tree, result, stdout, exit_code, visitor_vars, params_in, params_out>>

\* the file is removed between main's Path.exists and Path.read_text
file_removed ==
    /\ pc = "extract_functions" /\ entry = "main"
    /\ file_state # "FileNotFoundError"
    /\ file_state' = "FileNotFoundError"
    /\ tree' = <<>>
    /\ UNCHANGED <<doc_models, diagnostics, other, error_pos, deep_at, entry, argv_ok, pc, result, stdout, exit_code, visitor_vars, params_in, params_out>>

\* Path.read_text raises
extract_functions_read_error ==
    /\ pc = "extract_functions"
    /\ file_state \in ReadErrors
    /\ result' = result_after_raise(file_state, 0, 0)
    /\ pc' = pc_after_raise(file_state)
    /\ UNCHANGED <<doc_models, diagnostics, other, error_pos, deep_at, entry, argv_ok, file_state, tree, stdout, exit_code, visitor_vars, params_in, params_out>>

\* e.lineno and e.offset of what ast.parse raises, 0 standing for None:
\* the position after the statements that precede the malformed text, or
\* none at all (a null byte in the source)
ErrorPositions(t) == {<<0, 0>>, <<Len(t) + 1, 1>>}

\* ast.parse raises: the statements of tree precede the malformed text
extract_functions_parse_error ==
    /\ pc = "extract_functions"
    /\ file_state \in ParseErrors
    /\ result' = result_after_raise(file_state, error_pos[1], error_pos[2])
    /\ pc' = pc_after_raise(file_state)
    /\ UNCHANGED <<doc_models, diagnostics, other, error_pos, deep_at, entry, argv_ok, file_state, tree, stdout, exit_code, visitor_vars, params_in, params_out>>

\* ASTExtractor_init of a class that keeps functions in a class attribute
ASTExtractor_init_keeps_functions ==
    [functions |-> functions,
     current_function |-> NoFunction,
     return_statements |-> <<>>,
     exceptions |-> <<>>,
     has_io |-> FALSE,
     has_global_mods |-> FALSE,
     lists_of |-> NoFunction]

\* lines 129-137: the fields of a new ASTExtractor
ASTExtractor_init ==
    [functions |-> <<>>,
     current_function |-> NoFunction,
     return_statements |-> <<>>,
     exceptions |-> <<>>,
     has_io |-> FALSE,
     has_global_mods |-> FALSE,
     lists_of |-> NoFunction]

\* ast.parse, ASTExtractor(source) and the call extractor.visit(tree)
extract_functions_visit ==
    /\ pc = "extract_functions"
    /\ file_state = "ok"
    /\ pc' = "visit"
    /\ functions' = ASTExtractor_init.functions
    /\ SetContext(ASTExtractor_init)
    /\ stack' = <<Frame(Module, ResetContext(NoFunction), <<>>)>>
    /\ UNCHANGED <<doc_models, diagnostics, other, error_pos, deep_at, entry, argv_ok, file_state, tree, result, stdout, exit_code, params_in, params_out>>

\* extractor.visit raises RecursionError when it reaches the statement
\* nested too deeply; the extractor, a local of the try block, is dropped
\* with what it had collected
extract_functions_visit_error ==
    /\ Visiting
    /\ deep_at # 0 /\ Next_child = deep_at
    /\ result' = result_after_raise("RecursionError", 0, 0)
    /\ pc' = pc_after_raise("RecursionError")
    /\ stack' = <<>>
    /\ functions' = <<>>
    /\ SetContext(ResetContext(NoFunction))
    /\ UNCHANGED <<doc_models, diagnostics, other, error_pos, deep_at, entry, argv_ok, file_state, tree, stdout, exit_code, params_in, params_out>>

extract_functions_return ==
    /\ pc = "visit" /\ stack = <<>>
    /\ result' = success_result(functions)
    /\ pc' = "returned"
    /\ UNCHANGED <<doc_models, diagnostics, other, error_pos, deep_at, entry, argv_ok, file_state, tree, stdout, exit_code, visitor_vars, params_in, params_out>>

main_print ==
    /\ pc = "returned" /\ entry = "main"
    /\ stdout' = result
    /\ pc' = "exit"
    /\ UNCHANGED <<doc_models, diagnostics, other, error_pos, deep_at, entry, argv_ok, file_state, tree, result, exit_code, visitor_vars, params_in, params_out>>

\* ------------------------------------------------------------- the machine
\* what one call of extract_functions works on: its argument and what the
\* file holds, its locals, and the fields of the ASTExtractor it makes
Call(at) ==
    [file_state |-> file_state, tree |-> tree, error_pos |-> error_pos,
     deep_at |-> deep_at, pc |-> at, stack |-> stack, result |-> result,
     functions |-> functions, current_function |-> current_function,
     return_statements |-> return_statements, exceptions |-> exceptions,
     has_io |-> has_io, has_global_mods |-> has_global_mods,
     lists_of |-> lists_of]

\* no other call
NoCall ==
    [file_state |-> "ok", tree |-> <<>>, error_pos |-> <<0, 0>>,
     deep_at |-> 0, pc |-> "none", stack |-> <<>>, result |-> NoResult,
     functions |-> <<>>, current_function |-> NoFunction,
     return_statements |-> <<>>, exceptions |-> <<>>,
     has_io |-> FALSE, has_global_mods |-> FALSE, lists_of |-> NoFunction]

\* the state before the run, the file holding one of the trees of T
InitOn(T) ==
    /\ entry \in {"main", "extract_functions"}
    /\ argv_ok \in BOOLEAN
    /\ entry = "extract_functions" => argv_ok
    /\ file_state \in FileStates
    /\ tree \in T
    /\ file_state \in ReadErrors => tree = <<>>
    /\ ~argv_ok => (tree = <<>> /\ file_state = "ok")
    /\ error_pos \in IF is_SyntaxError(file_state)
                     THEN ErrorPositions(tree) ELSE {<<0, 0>>}
    /\ deep_at \in IF file_state = "ok" THEN 0..Len(tree) ELSE {0}
    /\ pc = entry
    /\ stack = <<>>
    /\ functions = <<>>
    /\ current_function = NoFunction
    /\ return_statements = <<>>
    /\ exceptions = <<>>
    /\ has_io = FALSE
    /\ has_global_mods = FALSE
    /\ lists_of = NoFunction
    /\ result = NoResult
    /\ stdout = NoResult
    /\ exit_code = 0
    /\ params_in = NoArguments
    /\ params_out = <<>>
    /\ doc_models = <<>>
    /\ diagnostics = <<>>

Init == InitOn(Trees) /\ other = NoCall

Next ==
    \/ main_invalid_arguments
    \/ main_file_not_found
    \/ main_call
    \/ file_removed
    \/ extract_functions_read_error
    \/ extract_functions_parse_error
    \/ extract_functions_visit
    \/ extract_functions_visit_error
    \/ extract_functions_return
    \/ main_print
    \/ visit_FunctionDef
    \/ visit_AsyncFunctionDef
    \/ visit_FunctionDef_return
    \/ generic_visit
    \/ generic_visit_return
    \/ visit_Return
    \/ visit_Raise
    \/ visit_Expr
    \/ visit_Global
    \/ visit_Nonlocal

Spec == Init /\ [][Next]_vars

\* the same program run on the files of BodyTrees
InitBodies == InitOn(BodyTrees) /\ other = NoCall

SpecBodies == InitBodies /\ [][Next]_vars

\* ------------------------------- extract_functions called a second time
\* the caller calls extract_functions again on the same path; the file has
\* not changed; the extractor of the first call is out of reach
extract_functions_again ==
    /\ pc = "returned" /\ entry = "extract_functions"
    /\ other = NoCall
    /\ other' = Call("returned")
    /\ pc' = "extract_functions"
    /\ result' = NoResult
    /\ UNCHANGED <<entry, argv_ok, file_state, tree, error_pos, deep_at, stdout,
                   exit_code, visitor_vars, params_in, params_out,
                   doc_models, diagnostics>>

InitRerun ==
    InitOn(Trees \cup BodyTrees) /\ entry = "extract_functions" /\ other = NoCall

NextRerun ==
    \/ extract_functions_read_error
    \/ extract_functions_parse_error
    \/ extract_functions_visit
    \/ extract_functions_visit_error
    \/ extract_functions_return
    \/ extract_functions_again
    \/ visit_FunctionDef
    \/ visit_AsyncFunctionDef
    \/ visit_FunctionDef_return
    \/ generic_visit
    \/ generic_visit_return
    \/ visit_Return
    \/ visit_Raise
    \/ visit_Expr
    \/ visit_Global
    \/ visit_Nonlocal

SpecRerun == InitRerun /\ [][NextRerun]_vars

\* ------------------------ two calls of extract_functions in progress
\* Resume of a class that keeps functions in a class attribute, which the
\* extractors of all calls share
Resume_shared_functions(c) ==
    /\ file_state' = c.file_state
    /\ tree' = c.tree
    /\ error_pos' = c.error_pos
    /\ deep_at' = c.deep_at
    /\ pc' = c.pc
    /\ stack' = c.stack
    /\ result' = c.result
    /\ functions' = functions
    /\ SetContext(c)

\* the call c runs on: its locals (lines 416-424) and the fields of its own
\* ASTExtractor (lines 129-137) are what the program works on again
Resume(c) ==
    /\ file_state' = c.file_state
    /\ tree' = c.tree
    /\ error_pos' = c.error_pos
    /\ deep_at' = c.deep_at
    /\ pc' = c.pc
    /\ stack' = c.stack
    /\ result' = c.result
    /\ functions' = c.functions
    /\ SetContext(c)

\* the call in progress is suspended where it is and the other call, which
\* has not returned yet, runs on
switch ==
    /\ pc \in {"extract_functions", "visit", "returned"}
    /\ other.pc \in {"extract_functions", "visit"}
    /\ other' = Call(pc)
    /\ Resume(other)
    /\ UNCHANGED <<entry, argv_ok, stdout, exit_code, params_in, params_out,
                   doc_models, diagnostics>>

\* the files of fewer than MaxNodes statements
FileTrees == UNION {TreesOfLen(n) : n \in 0..(MaxNodes - 1)}

\* the other call is about to start, on a file whose one function returns
\* obj.read() or on a file that is malformed after its first definition
OtherCalls ==
    { [NoCall EXCEPT !.pc = "extract_functions",
                     !.tree = <<Stmt("FunctionDef", AbsentExpr, MethodArguments),
                                [Stmt("Return", CallExpr("Attribute", "read"), NoArguments)
                                    EXCEPT !.parent = 1]>>],
      [NoCall EXCEPT !.pc = "extract_functions",
                     !.file_state = "SyntaxError",
                     !.tree = <<Stmt("FunctionDef", AbsentExpr, MethodArguments)>>,
                     !.error_pos = <<2, 1>>] }

InitFiles ==
    InitOn(FileTrees) /\ entry = "extract_functions" /\ other \in OtherCalls

NextFiles ==
    \/ extract_functions_read_error
    \/ extract_functions_parse_error
    \/ extract_functions_visit
    \/ extract_functions_visit_error
    \/ extract_functions_return
    \/ switch
    \/ visit_FunctionDef
    \/ visit_AsyncFunctionDef
    \/ visit_FunctionDef_return
    \/ generic_visit
    \/ generic_visit_return
    \/ visit_Return
    \/ visit_Raise
    \/ visit_Expr
    \/ visit_Global
    \/ visit_Nonlocal

SpecFiles == InitFiles /\ [][NextFiles]_vars

\* ------------------------------------- _extract_parameters on its own
ParamNames == {"a", "cls", "self"}

DefaultSrcs == {"1", "\"a\""}

SeqsUpTo(S, n) == UNION {[1..k -> S] : k \in 0..n}

UnannotatedArgs == {Arg(nm, NULL) : nm \in ParamNames}

\* the names tried for positional-only and for keyword-only parameters, and
\* the defaults tried for keyword-only ones (NULL: the parameter has none)
PosOnlyArgs == {Arg("a", NULL)}

KwOnlyArgs == {Arg("a", NULL), Arg("self", NULL)}

KwDefaultSrcs == {NULL, "1"}

\* every ast.arguments the parser can build within the bounds: defaults are
\* those of the last positional parameters, kw_defaults is as long as
\* kwonlyargs, and the parser does not reject a repeated name
AllArguments ==
    { a \in [posonlyargs : SeqsUpTo(PosOnlyArgs, MaxPosOnly),
             args : SeqsUpTo(UnannotatedArgs, MaxArgs),
             defaults : SeqsUpTo(DefaultSrcs, MaxPosOnly + MaxArgs),
             vararg : SeqsUpTo({Arg("args", NULL)}, 1),
             kwonlyargs : SeqsUpTo(KwOnlyArgs, MaxKwOnly),
             kw_defaults : SeqsUpTo(KwDefaultSrcs, MaxKwOnly),
             kwarg : SeqsUpTo({Arg("kwargs", NULL)}, 1)] :
        /\ Len(a.defaults) <= Len(a.posonlyargs) + Len(a.args)
        /\ Len(a.kw_defaults) = Len(a.kwonlyargs) }

InitParams ==
    /\ params_in \in AllArguments
    /\ params_out = <<>>
    /\ pc = "_extract_parameters"
    /\ entry = "extract_functions"
    /\ argv_ok = TRUE
    /\ file_state = "ok"
    /\ tree = <<>>
    /\ error_pos = <<0, 0>>
    /\ deep_at = 0
    /\ other = NoCall
    /\ stack = <<>>
    /\ functions = <<>>
    /\ current_function = NoFunction
    /\ return_statements = <<>>
    /\ exceptions = <<>>
    /\ has_io = FALSE
    /\ has_global_mods = FALSE
    /\ lists_of = NoFunction
    /\ result = NoResult
    /\ stdout = NoResult
    /\ exit_code = 0
    /\ doc_models = <<>>
    /\ diagnostics = <<>>

call_extract_parameters ==
    /\ pc = "_extract_parameters"
    /\ params_out' = _extract_parameters(params_in)
    /\ pc' = "extracted"
    /\ UNCHANGED <<doc_models, diagnostics, other, error_pos, deep_at, entry, argv_ok, file_state, tree, result, stdout, exit_code, visitor_vars, params_in>>

NextParams == call_extract_parameters

SpecParams == InitParams /\ [][NextParams]_vars

\* ------------------------------------------------- the comparison engine
\* Type Normalizer: the canonical type of a spelling, as the set of its
\* member tokens; an optional type is the union of its type and None
normalize(spelling) ==
    CASE spelling \in {"int", "integer"} -> {"int"}
      [] spelling \in {"str", "string"} -> {"str"}
      [] spelling \in {"bool", "boolean"} -> {"bool"}
      [] spelling = "None" -> {"None"}
      [] spelling \in {"str | None", "Optional[str]"} -> {"str", "None"}
      [] spelling \in {"int | None", "Optional[int]"} -> {"int", "None"}
      [] OTHER -> {spelling}

DocParam(n, t, o, e) ==
    [name |-> n, typeText |-> t, markedOptional |-> o, explicitOptionalityStated |-> e]

ReturnDoc(k, t) == [sectionKind |-> k, typeText |-> t]

\* the DocModel of a docstring without any section; returnDoc holds zero or
\* one ReturnDoc, that of the Returns section when the docstring has both a
\* Returns and a Yields section (alsoYields)
EmptyDocModel ==
    [documentedParameters |-> <<>>, returnDoc |-> <<>>, alsoYields |-> FALSE,
     documentedExceptions |-> {}, sideEffectNoteKinds |-> {}]

Diagnostic(rule, i, subject, line) ==
    [ruleId |-> rule, function |-> i, subject |-> subject, line |-> line]

CodeNames(d) == {d.parameters[k].name : k \in 1..Len(d.parameters)}

DocNames(m) == {m.documentedParameters[k].name : k \in 1..Len(m.documentedParameters)}

\* the flag of the descriptor, false when the descriptor has no such key
isGenerator(d) == "isGenerator" \in DOMAIN d /\ d.isGenerator

DocLine(d) == IF d.docstringRange = <<>> THEN d.range_start_line ELSE d.docstringRange[1]

DSV101(d, m, i) ==
    LET unmatched(p) == p.name \notin CodeNames(d)
        ps == SelectSeq(m.documentedParameters, unmatched)
    IN  [k \in 1..Len(ps) |-> Diagnostic("DSV101", i, ps[k].name, DocLine(d))]

DSV102(d, m, i) ==
    LET undocumented(p) == p.name \notin DocNames(m)
        ps == SelectSeq(d.parameters, undocumented)
    IN  [k \in 1..Len(ps) |-> Diagnostic("DSV102", i, ps[k].name, d.range_start_line)]

\* the parameter of the code that documented parameter p names
CodeParam(d, p) ==
    d.parameters[CHOOSE k \in 1..Len(d.parameters) : d.parameters[k].name = p.name]

DSV103(d, m, i) ==
    LET mismatch(p) ==
            /\ p.name \in CodeNames(d)
            /\ p.typeText # NULL
            /\ CodeParam(d, p).type # NULL
            /\ normalize(p.typeText) # normalize(CodeParam(d, p).type)
        ps == SelectSeq(m.documentedParameters, mismatch)
    IN  [k \in 1..Len(ps) |-> Diagnostic("DSV103", i, ps[k].name, DocLine(d))]

DSV104(d, m, i) ==
    LET mismatch(p) ==
            /\ p.name \in CodeNames(d)
            /\ p.explicitOptionalityStated
            /\ p.markedOptional # (CodeParam(d, p).defaultValue # NULL)
        ps == SelectSeq(m.documentedParameters, mismatch)
    IN  [k \in 1..Len(ps) |-> Diagnostic("DSV104", i, ps[k].name, DocLine(d))]

is_null_type(spelling) == normalize(spelling) = {"None"}

DSV201(d, m, i) ==
    IF /\ d.returnType # NULL
       /\ m.returnDoc # <<>>
       /\ m.returnDoc[1].typeText # NULL
       /\ normalize(d.returnType) # normalize(m.returnDoc[1].typeText)
    THEN <<Diagnostic("DSV201", i, d.returnType, DocLine(d))>>
    ELSE <<>>

DSV202(d, m, i) ==
    IF /\ d.returnType # NULL
       /\ ~is_null_type(d.returnType)
       /\ m.returnDoc = <<>>
       /\ ~isGenerator(d)
    THEN <<Diagnostic("DSV202", i, d.returnType, d.range_start_line)>>
    ELSE <<>>

DSV203(d, m, i) ==
    IF /\ IF d.returnType = NULL THEN TRUE ELSE is_null_type(d.returnType)
       /\ ~isGenerator(d)
       /\ m.returnDoc # <<>>
       /\ m.returnDoc[1].sectionKind = "Returns"
    THEN <<Diagnostic("DSV203", i, "Returns", DocLine(d))>>
    ELSE <<>>

\* the expected type set: the annotation of the code when there is one, else
\* the documented return type; <<>> when there is neither
expected_types(d, m) ==
    IF d.returnType # NULL THEN <<normalize(d.returnType)>>
    ELSE IF m.returnDoc # <<>> /\ m.returnDoc[1].typeText # NULL
    THEN <<normalize(m.returnDoc[1].typeText)>>
    ELSE <<>>

DSV204(d, m, i) ==
    LET expected == expected_types(d, m)
        offending(r) ==
            /\ expected # <<>>
            /\ r.type # NULL
            /\ ~(normalize(r.type) \subseteq expected[1])
        rs == SelectSeq(d.returnStatements, offending)
    IN  [k \in 1..Len(rs) |-> Diagnostic("DSV204", i, rs[k].type, rs[k].line)]

DSV205(d, m, i) ==
    IF /\ isGenerator(d)
       /\ m.returnDoc # <<>>
       /\ m.returnDoc[1].sectionKind = "Returns"
    THEN <<Diagnostic("DSV205", i, "Returns", DocLine(d))>>
    ELSE <<>>

\* one diagnostic for each exception type that is not documented, at the
\* first raise site of that type
DSV301(d, m, i) ==
    LET first_missing == {k \in 1..Len(d.raises) :
            /\ d.raises[k].type \notin m.documentedExceptions
            /\ \A j \in 1..(k - 1) : d.raises[j].type # d.raises[k].type}
    IN  [n \in 1..Cardinality(first_missing) |->
            LET k == CHOOSE x \in first_missing :
                        Cardinality({y \in first_missing : y < x}) = n - 1
            IN  Diagnostic("DSV301", i, d.raises[k].type, d.raises[k].line)]

RECURSIVE SeqOfSet(_)
SeqOfSet(S) ==
    IF S = {} THEN <<>>
    ELSE LET x == CHOOSE y \in S : TRUE
         IN  <<x>> \o SeqOfSet(S \ {x})

DSV302(d, m, i) ==
    LET raised == {d.raises[k].type : k \in 1..Len(d.raises)}
        names == SeqOfSet(m.documentedExceptions \ raised)
    IN  [k \in 1..Len(names) |-> Diagnostic("DSV302", i, names[k], DocLine(d))]

DSV401(d, m, i) ==
    (IF d.hasIO /\ "IO" \notin m.sideEffectNoteKinds
     THEN <<Diagnostic("DSV401", i, "IO", d.range_start_line)>> ELSE <<>>)
    \o (IF d.hasGlobalMods /\ "GlobalState" \notin m.sideEffectNoteKinds
        THEN <<Diagnostic("DSV401", i, "GlobalState", d.range_start_line)>> ELSE <<>>)

\* every rule, run on descriptor d (the i-th of the file) and doc model m
compare(d, m, i) ==
    DSV101(d, m, i) \o DSV102(d, m, i) \o DSV103(d, m, i) \o DSV104(d, m, i)
        \o DSV201(d, m, i) \o DSV202(d, m, i) \o DSV203(d, m, i)
        \o DSV204(d, m, i) \o DSV205(d, m, i)
        \o DSV301(d, m, i) \o DSV302(d, m, i) \o DSV401(d, m, i)

\* the doc models tried: each varies one part of the model, and rules read
\* one part each
ParamDocs ==
    { [EmptyDocModel EXCEPT !.documentedParameters = ps] :
        ps \in { <<>>,
                 <<DocParam("x", NULL, FALSE, FALSE)>>,
                 <<DocParam("y", NULL, FALSE, FALSE)>>,
                 <<DocParam("x", NULL, FALSE, FALSE), DocParam("y", NULL, FALSE, FALSE)>>,
                 <<DocParam("y", NULL, FALSE, FALSE), DocParam("z", NULL, FALSE, FALSE)>>,
                 <<DocParam("x", "integer", TRUE, TRUE), DocParam("z", NULL, FALSE, FALSE)>>,
                 <<DocParam("*args", NULL, FALSE, FALSE)>> } }

ReturnDocs ==
    { [EmptyDocModel EXCEPT !.returnDoc = <<ReturnDoc(k, t)>>,
                            !.alsoYields = (k = "Returns" /\ y)] :
        k \in {"Returns", "Yields"}, t \in {NULL, "int", "str | None", "None"},
        y \in BOOLEAN }

RaiseDocs ==
    { [EmptyDocModel EXCEPT !.documentedExceptions = es] :
        es \in SUBSET {"ValueError", "TypeError", "KeyError"} }

NoteDocs ==
    { [EmptyDocModel EXCEPT !.sideEffectNoteKinds = ks] :
        ks \in SUBSET {"IO", "GlobalState"} }

DocModels == ParamDocs \cup ReturnDocs \cup RaiseDocs \cup NoteDocs

\* a docstring of blanks has no section marker; the sections of any other
\* docstring text are not modelled: its doc model is any of DocModels
ParsedModels(text) == IF text = "    " THEN {EmptyDocModel} ELSE DocModels

Compared == Len(doc_models)

\* the next descriptor of the file has no docstring: nothing is compared
skip_function ==
    /\ pc = "returned" /\ entry = "extract_functions"
    /\ result.success
    /\ Compared < Len(result.functions)
    /\ result.functions[Compared + 1].docstring = NULL
    /\ doc_models' = Append(doc_models, EmptyDocModel)
    /\ UNCHANGED <<diagnostics, other, error_pos, deep_at, entry, argv_ok, file_state, tree, pc, result, stdout, exit_code, visitor_vars, params_in, params_out>>

\* the next descriptor has a docstring: the Docstring Parser builds its doc
\* model and every rule is run on the two
compare_function ==
    /\ pc = "returned" /\ entry = "extract_functions"
    /\ result.success
    /\ Compared < Len(result.functions)
    /\ LET d == result.functions[Compared + 1]
       IN  /\ d.docstring # NULL
           /\ \E m \in ParsedModels(d.docstring) :
                /\ doc_models' = Append(doc_models, m)
                /\ diagnostics' = diagnostics \o compare(d, m, Compared + 1)
    /\ UNCHANGED <<other, error_pos, deep_at, entry, argv_ok, file_state, tree, pc, result, stdout, exit_code, visitor_vars, params_in, params_out>>

\* ------------------------------------------- the files the rules are run on
MaxSites == 3

\* the lines a str constant takes after its first one
further_lines(v) ==
    CASE v = "\n    " -> 1
      [] v = "\n    text\n    " -> 2
      [] OTHER -> 0

\* the expression statement of the string v, first in the body of the
\* definition it follows, with the further lines of v
DocNode(v) ==
    <<[Stmt("Expr", StrExpr(v), NoArguments) EXCEPT !.parent = 1]>>
        \o [k \in 1..further_lines(v) |->
               [Stmt("Line", AbsentExpr, NoArguments) EXCEPT !.parent = 2]]

InBody(b, p) == [k \in 1..Len(b) |-> [b[k] EXCEPT !.parent = p]]

\* a definition h at module level: what stands first in its body, then the
\* simple statements b
Function(h, first, b) == <<h>> \o first \o InBody(b, 1)

\* the statements of block, k statements further down, in statement p
Shift(block, k, p) ==
    [n \in 1..Len(block) |->
        [block[n] EXCEPT !.parent = IF block[n].parent = Module THEN p
                                     ELSE block[n].parent + k]]

BodiesOver(S) == UNION {[1..n -> S] : n \in 0..MaxSites}

\* def f(x, y), def f(self, x), def f(x, *args), def f(x, /, y), def f()
RuleArguments ==
    { [NoArguments EXCEPT !.args = <<Arg("x", NULL), Arg("y", NULL)>>],
      [NoArguments EXCEPT !.args = <<Arg("self", NULL), Arg("x", NULL)>>],
      [NoArguments EXCEPT !.args = <<Arg("x", "int")>>, !.defaults = <<"1">>,
                          !.vararg = <<Arg("args", NULL)>>],
      [NoArguments EXCEPT !.posonlyargs = <<Arg("x", NULL)>>,
                          !.args = <<Arg("y", NULL)>>],
      NoArguments }

ParamTrees ==
    { Function(Stmt("FunctionDef", AbsentExpr, a), DocNode("text"), <<>>) :
        a \in RuleArguments }

ReturnAnnotations ==
    {AbsentExpr, AnnotationExpr("int"), AnnotationExpr("None"), AnnotationExpr("str|None")}

\* return 42, return storage[key], return None, return, return -x, yield
ReturnSiteStmts ==
    { Stmt("Return", ConstantExpr("int"), NoArguments),
      Stmt("Return", SubscriptExpr, NoArguments),
      Stmt("Return", ConstantExpr("NoneType"), NoArguments),
      Stmt("Return", AbsentExpr, NoArguments),
      Stmt("Return", OtherExpr("UnaryOp"), NoArguments),
      Stmt("Expr", OtherExpr("Yield"), NoArguments) }

ReturnTrees ==
    { Function(Stmt("FunctionDef", ann, NoArguments), DocNode("text"), b) :
        ann \in ReturnAnnotations, b \in BodiesOver(ReturnSiteStmts) }

\* raise ValueError("x"), raise ValueError, raise TypeError, raise,
\* raise errors.E("x")
RaiseSiteStmts ==
    { Stmt("Raise", CallExpr("Name", "ValueError"), NoArguments),
      Stmt("Raise", NameExpr("ValueError"), NoArguments),
      Stmt("Raise", NameExpr("TypeError"), NoArguments),
      Stmt("Raise", AbsentExpr, NoArguments),
      Stmt("Raise", CallExpr("Attribute", "E"), NoArguments) }

RaiseTrees ==
    { Function(Stmt("FunctionDef", AbsentExpr, NoArguments), DocNode("text"), b) :
        b \in BodiesOver(RaiseSiteStmts) }

\* open("f"), f.write("x"), len(x), global counter, nonlocal counter
EffectStmts ==
    { Stmt("Expr", CallExpr("Name", "open"), NoArguments),
      Stmt("Expr", CallExpr("Attribute", "write"), NoArguments),
      Stmt("Expr", CallExpr("Name", "len"), NoArguments),
      Stmt("Global", AbsentExpr, NoArguments),
      Stmt("Nonlocal", AbsentExpr, NoArguments) }

EffectTrees ==
    { Function(Stmt("FunctionDef", AnnotationExpr("None"), NoArguments), DocNode("text"), b) :
        b \in BodiesOver(EffectStmts) }

\* the texts tried as the string that stands first in a body
DocTexts == {"", "   ", "\n    ", "text", "\n    text\n    "}

\* what stands first in a body: nothing that the file shows, a string, a
\* bytes constant, a call, a return of a string
FirstStmts ==
    {<<>>} \cup {DocNode(v) : v \in DocTexts}
        \cup { InBody(<<s>>, 1) :
                 s \in { Stmt("Expr", ConstantExpr("bytes"), NoArguments),
                         Stmt("Expr", CallExpr("Name", "print"), NoArguments),
                         Stmt("Return", StrExpr("text"), NoArguments) } }

\* what follows: nothing, return x, a string that is not first
RestStmts ==
    { <<>>, <<Stmt("Return", NameExpr("x"), NoArguments)>>,
      <<Stmt("Expr", StrExpr("text"), NoArguments)>> }

DocFunctions ==
    { Function(Stmt(k, ann, MethodArguments), first, b) :
        k \in FunctionKinds, ann \in {AbsentExpr, AnnotationExpr("int")},
        first \in FirstStmts, b \in RestStmts }

\* a def or a class whose body starts with a string and holds a def
NestedDocTrees ==
    { Function(Stmt(k, AbsentExpr, NoArguments), DocNode(v), <<>>)
          \o Shift(Function(Stmt("FunctionDef", AbsentExpr, MethodArguments), first,
                            <<Stmt("Return", NameExpr("x"), NoArguments)>>),
                   1 + Len(DocNode(v)), 1)
          \o InBody(b, 1) :
        k \in {"FunctionDef", "ClassDef"}, v \in {"text", "\n    text\n    "},
        first \in {<<>>, DocNode("text"), DocNode("\n    ")}, b \in RestStmts }

DocTrees == DocFunctions \cup NestedDocTrees

RuleTrees == ParamTrees \cup ReturnTrees \cup RaiseTrees \cup EffectTrees \cup DocTrees

InitRules ==
    /\ InitOn(RuleTrees)
    /\ entry = "extract_functions"
    /\ file_state \in {"ok", "SyntaxError"}
    /\ deep_at = 0
    /\ other = NoCall

NextRules ==
    \/ extract_functions_parse_error
    \/ extract_functions_visit
    \/ extract_functions_return
    \/ visit_FunctionDef
    \/ visit_AsyncFunctionDef
    \/ visit_FunctionDef_return
    \/ generic_visit
    \/ generic_visit_return
    \/ visit_Return
    \/ visit_Raise
    \/ visit_Expr
    \/ visit_Global
    \/ visit_Nonlocal
    \/ skip_function
    \/ compare_function

SpecRules == InitRules /\ [][NextRules]_vars

\* ------------------------------------------------ what the file contains
Defs == {n \in Lines : tree[n].kind \in FunctionKinds}

\* the innermost function definition statement n stands in, 0 when none
RECURSIVE EnclosingFunction(_)
EnclosingFunction(n) ==
    LET p == tree[n].parent
    IN  IF p = Module THEN NoFunction
        ELSE IF tree[p].kind \in FunctionKinds THEN p
        ELSE EnclosingFunction(p)

\* the statements of the body of f that are not in a function nested in f
OwnStatements(f) == {n \in Lines : EnclosingFunction(n) = f}

\* n stands somewhere inside the compound statement f
Inside(n, f) == n # f /\ f \in AncestorsOrSelf(tree, n)

IsIOCall(e) ==
    /\ e.kind = "Call"
    /\ \/ e.fkind \in {"Name", "Attribute"} /\ e.name \in io_functions
       \/ e.fkind = "Attribute" /\ e.name \in file_operations

HasIOCall(n) == IsIOCall(tree[n].expr)

DeclaresOuterName(n) == tree[n].kind \in {"Global", "Nonlocal"}

Finished == pc \in {"returned", "exit"} /\ result.keys # {}

\* the statements the traversal has visited so far
Visited ==
    IF stack # <<>>
    THEN {n \in Lines : n <= Top.last \/ (Top.last # Top.node /\ Inside(n, Top.last))}
    ELSE IF pc = "visit" \/ (Finished /\ result.success) THEN Lines
    ELSE {}

RECURSIVE SortedSeq(_)
SortedSeq(S) ==
    IF S = {} THEN <<>>
    ELSE LET m == CHOOSE x \in S : \A y \in S : x <= y
         IN  <<m>> \o SortedSeq(S \ {m})

LinesOf(l) == [i \in 1..Len(l) |-> l[i].line]

\* ------------------------------------------------------------------ claims

\* C1: the has_io and has_global_mods flags of a descriptor come from the
\* statements of that function's own body only: a flag is set only if an
\* I/O call (a global or nonlocal declaration) stands in the body outside
\* every nested function, so nothing leaks from a nested function into an
\* enclosing one nor from an enclosing function into a nested one.
C1_FlagsOwnBodyOnly ==
    \A i \in 1..Len(functions) :
        LET f == functions[i].line_start
        IN  /\ functions[i].has_io => \E n \in OwnStatements(f) : HasIOCall(n)
            /\ functions[i].has_global_mods =>
                   \E n \in OwnStatements(f) : DeclaresOuterName(n)

\* a nested function with a flag set has been emitted, and so has the
\* function around it, with that flag clear
C1_Witness ==
    \E i, j \in 1..Len(functions) :
        /\ EnclosingFunction(functions[i].line_start) = functions[j].line_start
        /\ \/ functions[i].has_io /\ ~functions[j].has_io
           \/ functions[i].has_global_mods /\ ~functions[j].has_global_mods

ReturnsIn(S) == {n \in S : tree[n].kind = "Return"}

RaisesIn(S) == {n \in S : tree[n].kind = "Raise"}

RaisesWithExcIn(S) == {n \in RaisesIn(S) : tree[n].expr.kind # "Absent"}

\* C2 as stated: every return and every raise statement is recorded in the
\* list of the innermost function around it and nowhere else.
C2_Original ==
    \A i \in 1..Len(functions) :
        LET own == OwnStatements(functions[i].line_start)
        IN  /\ LinesOf(functions[i].return_statements) = SortedSeq(ReturnsIn(own))
            /\ LinesOf(functions[i].raises) = SortedSeq(RaisesIn(own))

\* C2 (amended): every return statement and every raise statement that has
\* an exception expression is recorded exactly once, in the list of the
\* innermost function around it; a bare `raise` is recorded nowhere.  While
\* a function is being visited the two lists hold exactly the statements of
\* its own body visited so far: empty on entry, and still holding what was
\* recorded before a nested definition after that definition is left.
C2_RecordedInInnermost ==
    /\ \A i \in 1..Len(functions) :
        LET own == OwnStatements(functions[i].line_start)
        IN  /\ LinesOf(functions[i].return_statements) = SortedSeq(ReturnsIn(own))
            /\ LinesOf(functions[i].raises) = SortedSeq(RaisesWithExcIn(own))
    /\ (Visiting /\ current_function # NoFunction) =>
        LET seen == OwnStatements(current_function) \cap Visited
        IN  /\ LinesOf(return_statements) = SortedSeq(ReturnsIn(seen))
            /\ LinesOf(exceptions) = SortedSeq(RaisesWithExcIn(seen))

\* a nested definition has been left and the function around it still
\* holds a return or raise recorded before the nested definition
C2_Witness ==
    /\ Visiting /\ current_function # NoFunction
    /\ \E i \in 1..Len(functions) :
        /\ EnclosingFunction(functions[i].line_start) = current_function
        /\ \/ \E k \in 1..Len(return_statements) :
                  return_statements[k].line < functions[i].line_start
           \/ \E k \in 1..Len(exceptions) :
                  exceptions[k].line < functions[i].line_start

\* C3: on success the output holds exactly one descriptor for every def and
\* async def of the file, top-level, in a class or nested in a function.
C3_OneDescriptorPerDefinition ==
    (Finished /\ result.success) =>
        /\ Len(result.functions) = Cardinality(Defs)
        /\ {result.functions[i].range_start_line + 1 : i \in 1..Len(result.functions)} = Defs

\* a successful run over a file with an async def nested in a method
C3_Witness ==
    /\ Finished /\ result.success
    /\ \E n, m \in Defs :
        /\ tree[n].kind = "AsyncFunctionDef"
        /\ EnclosingFunction(n) = m
        /\ tree[m].parent # Module

StartLine(d) == d.range_start_line + 1

\* C4 as stated: the descriptors of the output are in the order in which
\* the definitions start in the source text, nested definitions included.
C4_Original ==
    (Finished /\ result.success) =>
        \A i, j \in 1..Len(result.functions) :
            i < j => StartLine(result.functions[i]) < StartLine(result.functions[j])

\* C4 (amended): the descriptors of the output are in the order in which
\* the definitions end: when A starts before B and B is not nested in A,
\* the descriptor of A precedes that of B; when B is nested in A, the
\* descriptor of B precedes that of A.
C4_OrderOfDefinitionEnd ==
    (Finished /\ result.success) =>
        \A i, j \in 1..Len(result.functions) :
            LET A == StartLine(result.functions[i])
                B == StartLine(result.functions[j])
            IN  A < B => IF Inside(B, A) THEN j < i ELSE i < j

\* a successful output in which a nested definition comes before the
\* definition around it and a later sibling comes after both
C4_Witness ==
    /\ Finished /\ result.success
    /\ \E i, j \in 1..Len(result.functions) :
        /\ i < j
        /\ Inside(StartLine(result.functions[i]), StartLine(result.functions[j]))
    /\ \E i, j \in 1..Len(result.functions) :
        /\ i < j
        /\ StartLine(result.functions[i]) < StartLine(result.functions[j])

\* C5: a descriptor is in the list only once the whole body of its
\* function has been visited and that visit has returned, so the descriptor
\* of every function nested in it is in the list before it; definitions of
\* which neither is nested in the other are in source order.
C5_AppendedAfterBody ==
    \A i \in 1..Len(functions) :
        LET f == functions[i].line_start
        IN  /\ \A n \in Lines : Inside(n, f) => n \in Visited
            /\ \A k \in 1..Len(stack) : stack[k].node # f
            /\ \A d \in Defs : Inside(d, f) =>
                   \E j \in 1..(i - 1) : functions[j].line_start = d
            /\ \A j \in 1..(i - 1) :
                   LET g == functions[j].line_start
                   IN  g < f \/ Inside(g, f)

\* a function has been appended after the function nested in it, while a
\* later statement of the file is still to be visited
C5_Witness ==
    /\ Visiting
    /\ Visited # Lines
    /\ \E i, j \in 1..Len(functions) :
        /\ j < i
        /\ Inside(functions[j].line_start, functions[i].line_start)

\* the run is over: main has exited, or extract_functions has returned to
\* the caller that entered it
Terminal ==
    \/ entry = "main" /\ pc = "exit"
    \/ entry = "extract_functions" /\ pc = "returned"

\* what the caller of the run receives: main's output, or the returned dict
Report == IF entry = "main" THEN stdout ELSE result

\* C6: when ast.parse rejects the source text as malformed the result is a
\* failure of kind SyntaxError that carries a line and an offset (those of
\* the exception) and has no function list, whatever definitions precede
\* the malformed text.
C6_SyntaxErrorNoDescriptors ==
    (Finished /\ is_SyntaxError(file_state)) =>
        /\ ~result.success
        /\ result.error = "SyntaxError"
        /\ result.keys = {"success", "error", "message", "line", "offset"}
        /\ <<result.line, result.offset>> = error_pos
        /\ result.functions = <<>>
        /\ Terminal => Report = result

\* a failed parse of a file whose malformed text follows a definition
C6_Witness ==
    /\ Finished /\ file_state = "IndentationError"
    /\ Defs # {}
    /\ ~result.success
    /\ result.line = Len(tree) + 1

MissingReported == Terminal /\ argv_ok /\ file_state = "FileNotFoundError"

\* C7 as stated: a missing input is reported with one kind (the spec's
\* NotFound), the same whether the run entered through extract_functions or
\* through main: the kind the caller receives is the kind extract_functions
\* gives for a missing file.
C7_Original ==
    MissingReported => Report.error = except_result(file_state, 0, 0).error

\* C7 (amended): a missing input is reported as a structured failure with a
\* kind and a message and without a function list; the kind is
\* FileNotFoundError when extract_functions reports it and FileNotFound
\* when main's own existence check reports it.
C7_NotFoundKinds ==
    MissingReported =>
        /\ ~Report.success
        /\ Report.keys = {"success", "error", "message"}
        /\ Report.functions = <<>>
        /\ Report.error = IF entry = "main" /\ result = NoResult
                          THEN "FileNotFound" ELSE "FileNotFoundError"
        /\ (entry = "main" /\ result = NoResult) => exit_code = 1

\* main has reported a missing file itself
C7_Witness ==
    /\ MissingReported /\ entry = "main"
    /\ stdout.error = "FileNotFound"
    /\ result = NoResult

\* C8: a call of extract_functions never raises to its caller, and what it
\* returns is either success with the descriptor of every definition, or a
\* failure with a kind and a message and without a function list.
C8_OneOfTwoOutcomes ==
    /\ pc # "raised"
    /\ pc \in {"returned", "exit"} /\ (entry = "extract_functions" \/ exit_code = 0)
           => result.keys # {}
    /\ result.keys # {} =>
        \/ /\ result.success
           /\ result.keys = {"success", "file", "functions"}
           /\ result.error = ""
           /\ Len(result.functions) = Cardinality(Defs)
        \/ /\ ~result.success
           /\ {"success", "error", "message"} \subseteq result.keys
           /\ "functions" \notin result.keys
           /\ result.error # ""
           /\ result.functions = <<>>

\* the traversal of a file with a definition was cut short by an exception
C8_Witness ==
    /\ Finished /\ result.error = "RecursionError"
    /\ Defs # {}

ArgNames(l) == [i \in 1..Len(l) |-> l[i].arg]

NamesOf(l) == [i \in 1..Len(l) |-> l[i].name]

\* the declared parameter is the implicit first one of a method
ImplicitFirst(positional) ==
    positional # <<>> /\ positional[1] \in {"self", "cls"}

\* the names a signature declares, in declaration order, without an
\* implicit first self or cls
DeclaredNames(a) ==
    LET positional == ArgNames(a.posonlyargs) \o ArgNames(a.args)
    IN  (IF ImplicitFirst(positional) THEN Tail(positional) ELSE positional)
            \o [i \in 1..Len(a.vararg) |-> "*" \o a.vararg[i].arg]
            \o ArgNames(a.kwonlyargs)
            \o [i \in 1..Len(a.kwarg) |-> "**" \o a.kwarg[i].arg]

\* C9: the parameter list names every declared parameter, in declaration
\* order, except an implicit first parameter named self or cls.
C9_Claim ==
    pc = "extracted" => NamesOf(params_out) = DeclaredNames(params_in)

\* the regular parameters the loop over args.args keeps
KeptRegular(a) == {i \in 1..Len(a.args) : ~skip_regular(a, i)}

\* the source of the default of the i-th regular parameter, NULL when it
\* has none: the defaults belong to the last positional parameters
PositionalDefault(a, i) ==
    LET without == Len(a.args) - Len(a.defaults)
    IN  IF i > without THEN a.defaults[i - without] ELSE NULL

\* C10: every regular and keyword-only parameter of the descriptor is
\* optional exactly when the signature gives it a default, and its default
\* value is the text of its own default (as ast.unparse renders it), null
\* when it has none.
C10_Claim ==
    pc = "extracted" =>
        LET a == params_in
            kept == KeptRegular(a)
            ownDefault(p, d) ==
                /\ p.is_optional = (d # NULL)
                /\ p.default_value = IF d = NULL THEN NULL ELSE unparse_default(d)
        IN  /\ \A i \in kept :
                ownDefault(params_out[Cardinality({k \in kept : k <= i})],
                           PositionalDefault(a, i))
            /\ \A j \in 1..Len(a.kwonlyargs) :
                ownDefault(params_out[Cardinality(kept) + Len(a.vararg) + j],
                           a.kw_defaults[j])

\* the names the variadic entries can carry
StarNames == {"*" \o v.arg : v \in {Arg("args", NULL)}}

DoubleStarNames == {"**" \o v.arg : v \in {Arg("kwargs", NULL)}}

\* C11: a *args parameter is one entry named with a '*' prefix and a
\* **kwargs parameter one entry named with a '**' prefix; both are optional
\* and carry no default text; the '*' entry follows every regular parameter
\* and precedes the keyword-only ones, and the '**' entry is the last one.
C11_VariadicEntries ==
    pc = "extracted" =>
        LET a == params_in
            out == params_out
            K == Cardinality(KeptRegular(a))
            V == Len(a.vararg)
            W == Len(a.kwonlyargs)
            regular == [i \in 1..K |-> out[i].name]
            kwonly == [j \in 1..W |-> out[K + V + j].name]
        IN  /\ Len(out) = K + V + W + Len(a.kwarg)
            /\ {i \in DOMAIN out : out[i].name \in StarNames}
                    = {K + 1 : v \in DOMAIN a.vararg}
            /\ {i \in DOMAIN out : out[i].name \in DoubleStarNames}
                    = {Len(out) : v \in DOMAIN a.kwarg}
            /\ \A i \in DOMAIN out :
                    out[i].name \in StarNames \cup DoubleStarNames =>
                        out[i].is_optional /\ out[i].default_value = NULL
            /\ a.vararg # <<>> => out[K + 1].name = "*" \o a.vararg[1].arg
            /\ a.kwarg # <<>> => out[Len(out)].name = "**" \o a.kwarg[1].arg
            /\ regular = [i \in 1..K |->
                    a.args[CHOOSE k \in KeptRegular(a) :
                        Cardinality({m \in KeptRegular(a) : m <= k}) = i].arg]
            /\ kwonly = ArgNames(a.kwonlyargs)

C11_Witness ==
    /\ pc = "extracted"
    /\ params_in.vararg # <<>> /\ params_in.kwarg # <<>>
    /\ KeptRegular(params_in) # {} /\ params_in.kwonlyargs # <<>>
    /\ Len(params_out) >= 4

\* control cannot reach statement n: in the block of n or of a statement
\* around n, an earlier statement is a return or a raise
Unreachable(n) ==
    \E a \in AncestorsOrSelf(tree, n) :
        \E m \in Lines :
            /\ m < a
            /\ tree[m].parent = tree[a].parent
            /\ tree[m].kind \in {"Return", "Raise"}

\* every entry for a bare `return` has the type None
BareReturnsAreNone(d) ==
    \A k \in 1..Len(d.returnStatements) :
        tree[d.returnStatements[k].line].expr = AbsentExpr =>
            d.returnStatements[k].type = "None"

\* C12 as stated: the return list of a descriptor has one entry per
\* reachable return statement of the function's own body, in source order
\* with the statement's line; an unreachable return statement has no entry;
\* a bare `return` has the type None.
C12_Original ==
    (Finished /\ result.success) =>
        \A i \in 1..Len(result.functions) :
            LET d == result.functions[i]
                own == OwnStatements(StartLine(d))
            IN  /\ LinesOf(d.returnStatements)
                       = SortedSeq({n \in ReturnsIn(own) : ~Unreachable(n)})
                /\ BareReturnsAreNone(d)

\* C12 (amended): the return list of a descriptor has one entry per return
\* statement of the function's own body, reachable or not, in source order
\* with the statement's line; a bare `return` has the type None.
C12_OneEntryPerReturnStatement ==
    (Finished /\ result.success) =>
        \A i \in 1..Len(result.functions) :
            LET d == result.functions[i]
                own == OwnStatements(StartLine(d))
            IN  /\ LinesOf(d.returnStatements) = SortedSeq(ReturnsIn(own))
                /\ BareReturnsAreNone(d)

\* a descriptor lists a bare `return` that follows another return statement
C12_Witness ==
    /\ Finished /\ result.success
    /\ \E i \in 1..Len(result.functions) :
        \E k \in 1..Len(result.functions[i].returnStatements) :
            LET r == result.functions[i].returnStatements[k]
            IN  /\ k > 1
                /\ Unreachable(r.line)
                /\ tree[r.line].expr = AbsentExpr
                /\ r.type = "None"

\* the return entries of the output with the expression each one stands for
ReturnEntries ==
    UNION { {[type |-> d.returnStatements[k].type,
              expr |-> tree[d.returnStatements[k].line].expr] :
                k \in 1..Len(d.returnStatements)} :
            d \in {result.functions[i] : i \in 1..Len(result.functions)} }

ContainerTypeName(k) ==
    CASE k = "List" -> "list"
      [] k = "Dict" -> "dict"
      [] k = "Set" -> "set"
      [] k = "Tuple" -> "tuple"

\* C13 as stated: a string, number, boolean or None literal has the type
\* str, int, float, bool or None; a list, dict, set or tuple literal has the
\* container type; every other return expression has the null type.
C13_Original ==
    (Finished /\ result.success) =>
        \A r \in ReturnEntries :
            r.expr.kind # "Absent" =>
                r.type = CASE r.expr.kind = "Constant"
                                /\ r.expr.fkind \in {"str", "int", "float", "bool"}
                                    -> r.expr.fkind
                           [] r.expr.kind = "Constant" /\ r.expr.fkind = "NoneType"
                                    -> "None"
                           [] r.expr.kind \in LiteralContainers
                                    -> ContainerTypeName(r.expr.kind)
                           [] OTHER -> NULL

\* C13 (amended): a literal constant has the type named after the class of
\* its value: str, int, float, bool and None, and also bytes, complex and
\* ellipsis; a list, dict, set or tuple literal has the container type;
\* every other return expression has the null type.
C13_TypeBySyntacticForm ==
    (Finished /\ result.success) =>
        \A r \in ReturnEntries :
            r.expr.kind # "Absent" =>
                r.type = CASE r.expr.kind = "Constant" /\ r.expr.fkind = "NoneType"
                                    -> "None"
                           [] r.expr.kind = "Constant" /\ r.expr.fkind # "NoneType"
                                    -> r.expr.fkind
                           [] r.expr.kind \in LiteralContainers
                                    -> ContainerTypeName(r.expr.kind)
                           [] OTHER -> NULL

\* a function returns a unary minus and then a string literal: the output
\* has the null type for the first and str for the second
C13_Witness ==
    /\ Finished /\ result.success
    /\ \E r, q \in ReturnEntries :
        /\ r.expr.kind = "UnaryOp" /\ r.type = NULL
        /\ q.expr = ConstantExpr("str") /\ q.type = "str"

\* the raised expression is a name E or a call E(...) of a name
DirectName(e) == e.kind = "Name" \/ (e.kind = "Call" /\ e.fkind = "Name")

\* the types the raise list of descriptor d carries for the raise statement n
RecordedTypes(d, n) ==
    {d.raises[k].type : k \in {j \in 1..Len(d.raises) : d.raises[j].line = n}}

C15_HasIOIffRecognizedCall ==
    (Finished /\ result.success) =>
        \A i \in 1..Len(result.functions) :
            result.functions[i].hasIO
                = (\E n \in OwnStatements(StartLine(result.functions[i])) : HasIOCall(n))

\* a function whose only call is obj.write(...) has hasIO true while the
\* other function of the file has hasIO false
C15_Witness ==
    /\ Finished /\ result.success
    /\ \E i, j \in 1..Len(result.functions) :
        /\ result.functions[i].hasIO
        /\ \E n \in OwnStatements(StartLine(result.functions[i])) :
               tree[n].expr = CallExpr("Attribute", "write")
        /\ ~result.functions[j].hasIO

\* C16: hasGlobalMods of a descriptor is true exactly when a statement of
\* the function's own body, outside every nested function, is a global or
\* nonlocal declaration; the declaration alone is enough, and a function
\* that only reads a name (return x) has hasGlobalMods false.
C16_HasGlobalModsIffDeclaration ==
    (Finished /\ result.success) =>
        \A i \in 1..Len(result.functions) :
            result.functions[i].hasGlobalMods
                = (\E n \in OwnStatements(StartLine(result.functions[i])) :
                        DeclaresOuterName(n))

\* a function whose body is nothing but a nonlocal declaration has
\* hasGlobalMods true, and the function around it has hasGlobalMods false
C16_Witness ==
    /\ Finished /\ result.success
    /\ \E i, j \in 1..Len(result.functions) :
        LET f == StartLine(result.functions[i])
        IN  /\ result.functions[i].hasGlobalMods
            /\ \A n \in OwnStatements(f) : tree[n].kind = "Nonlocal"
            /\ EnclosingFunction(f) = StartLine(result.functions[j])
            /\ ~result.functions[j].hasGlobalMods

\* the yield and yield from expressions among the statements S
YieldsIn(S) ==
    {n \in S : tree[n].kind = "Expr" /\ tree[n].expr.kind \in {"Yield", "YieldFrom"}}

\* C17: every descriptor of the output has the keys isGenerator and
\* yieldStatements; the yield list has one entry per yield and per yield
\* from of the function's body, isGenerator is true exactly when that list
\* is not empty, and the return statements of a generator are still in its
\* return list.
C17_Claim ==
    (Finished /\ result.success) =>
        \A i \in 1..Len(result.functions) :
            LET d == result.functions[i]
                own == OwnStatements(StartLine(d))
            IN  /\ {"isGenerator", "yieldStatements"} \subseteq DOMAIN d
                /\ LinesOf(d.yieldStatements) = SortedSeq(YieldsIn(own))
                /\ d.isGenerator = (d.yieldStatements # <<>>)
                /\ LinesOf(d.returnStatements) = SortedSeq(ReturnsIn(own))

\* C18: every descriptor of the output has the key isAsync, true exactly
\* when the function is defined with async def, whether or not the function
\* holds a yield.
C18_Claim ==
    (Finished /\ result.success) =>
        \A i \in 1..Len(result.functions) :
            LET d == result.functions[i]
            IN  /\ "isAsync" \in DOMAIN d
                /\ d.isAsync = (tree[StartLine(d)].kind = "AsyncFunctionDef")

\* C19: a second call of extract_functions on a file that has not changed
\* returns the same dict as the first one: the same outcome and, on success,
\* the same descriptors with the same fields in the same order.
C19_RerunSameResult ==
    (pc = "returned" /\ other.pc = "returned") => result = other.result

\* the second call has returned the descriptors of a file that has a
\* function nested in another one
C19_Witness ==
    /\ pc = "returned" /\ other.pc = "returned"
    /\ result.success
    /\ \E i, j \in 1..Len(result.functions) :
           Inside(StartLine(result.functions[i]), StartLine(result.functions[j]))
    /\ \E i \in 1..Len(result.functions) : result.functions[i].hasIO

\* ------------------------------ what analysing a file alone results in
\* the innermost function definition of t that statement n stands in
RECURSIVE EnclosingDef(_, _)
EnclosingDef(t, n) ==
    LET p == t[n].parent
    IN  IF p = Module THEN NoFunction
        ELSE IF t[p].kind \in FunctionKinds THEN p
        ELSE EnclosingDef(t, p)

OwnIn(t, f) == {n \in 1..Len(t) : EnclosingDef(t, n) = f}

\* the definitions S of t, each after the definitions nested in it and
\* otherwise in source order
RECURSIVE PostOrder(_, _)
PostOrder(t, S) ==
    IF S = {} THEN <<>>
    ELSE LET ready == {d \in S : \A e \in S \ {d} : d \notin AncestorsOrSelf(t, e)}
             d == CHOOSE x \in ready : \A y \in ready : x <= y
         IN  <<d>> \o PostOrder(t, S \ {d})

\* the descriptor of the definition f of t
DescriptorAlone(t, f) ==
    LET own == OwnIn(t, f)
        returns == SortedSeq({n \in own : t[n].kind = "Return"})
        raised == SortedSeq({n \in own : t[n].kind = "Raise" /\ t[n].expr.kind # "Absent"})
        parameters == _extract_parameters(t[f].args)
    IN  [range_start_line |-> f - 1,
         range_end_line |-> end_lineno(t, f) - 1,
         returnType |-> _extract_return_type(t[f]),
         docstring |-> _extract_docstring(t, f)[1],
         docstringRange |->
             IF _extract_docstring(t, f)[1] = NULL THEN <<>>
             ELSE <<FirstChild(t, f) - 1, end_lineno(t, FirstChild(t, f)) - 1>>,
         parameters |-> [i \in 1..Len(parameters) |-> ParameterDict(parameters[i])],
         returnStatements |-> [k \in 1..Len(returns) |->
             ReturnDescriptor(_infer_type(t[returns[k]].expr), returns[k])],
         raises |-> [k \in 1..Len(raised) |->
             ExceptionDescriptor(_extract_exception_type(t[raised[k]].expr), raised[k])],
         hasIO |-> \E n \in own : IsIOCall(t[n].expr),
         hasGlobalMods |-> \E n \in own : t[n].kind \in {"Global", "Nonlocal"}]

\* the dict extract_functions returns for the file of call c when no other
\* call is in progress
ResultAlone(c) ==
    IF c.file_state \in ReadErrors THEN error_result(c.file_state)
    ELSE IF is_SyntaxError(c.file_state)
         THEN syntax_error_result(c.error_pos[1], c.error_pos[2])
    ELSE IF c.file_state \in ParseErrors THEN error_result(c.file_state)
    ELSE IF c.deep_at # 0 THEN error_result("RecursionError")
    ELSE LET order == PostOrder(c.tree, {n \in 1..Len(c.tree) :
                                            c.tree[n].kind \in FunctionKinds})
         IN  [NoResult EXCEPT
                 !.keys = {"success", "file", "functions"},
                 !.success = TRUE,
                 !.functions = [i \in 1..Len(order) |-> DescriptorAlone(c.tree, order[i])]]

\* C20: two calls of extract_functions on two files share no state: however
\* the steps of the two traversals interleave, each call returns the dict
\* the analysis of its file alone returns, and a file that is malformed
\* changes nothing in the dict of the other file.
C20_InterleavedAsAlone ==
    /\ pc = "returned" => result = ResultAlone(Call(pc))
    /\ other.pc = "returned" => other.result = ResultAlone(other)

\* both traversals are in progress, each one inside a function of its file
\* with a return statement recorded
C20_Witness ==
    /\ Visiting /\ current_function # NoFunction /\ return_statements # <<>>
    /\ other.pc = "visit" /\ other.current_function # NoFunction
    /\ other.return_statements # <<>>

\* the definition the i-th descriptor of the result was made from
NodeOf(i) == result.functions[i].range_start_line + 1

DiagnosticsOf(i) == SelectSeq(diagnostics, LAMBDA g : g.function = i)

\* an empty string or one of blanks, spaces and line ends, only
IsBlank(v) == v \in {"", "   ", "\n    "}

\* the body of f starts with a string
HasDocstringStatement(f) ==
    /\ FirstChild(tree, f) # 0
    /\ tree[FirstChild(tree, f)].kind = "Expr"
    /\ tree[FirstChild(tree, f)].expr.kind = "Constant"
    /\ tree[FirstChild(tree, f)].expr.fkind = "str"

DocstringText(f) == tree[FirstChild(tree, f)].expr.name

\* C21: a function without a docstring gets no diagnostic from any rule,
\* whatever its parameters, annotation, raise sites and flags are, and a
\* function whose docstring is empty or made of whitespace only is reported
\* by the extractor as having no docstring.
C21_Claim ==
    (pc = "returned" /\ result.success) =>
        \A i \in 1..Len(result.functions) :
            /\ result.functions[i].docstring = NULL => DiagnosticsOf(i) = <<>>
            /\ (HasDocstringStatement(NodeOf(i)) /\ IsBlank(DocstringText(NodeOf(i))))
                   => result.functions[i].docstring = NULL

Range(s) == {s[k] : k \in 1..Len(s)}

\* the subjects of the diagnostics of rule r for the i-th function, in order
SubjectsOf(r, i) ==
    LET ds == SelectSeq(diagnostics, LAMBDA g : g.function = i /\ g.ruleId = r)
    IN  [k \in 1..Len(ds) |-> ds[k].subject]

IsInjective(s) == \A j, k \in 1..Len(s) : s[j] = s[k] => j = k

\* the i-th function of the file has been compared with its doc model
WasCompared(i) ==
    /\ pc = "returned" /\ result.success
    /\ i \in 1..Compared
    /\ result.functions[i].docstring # NULL

\* C22: for every function with a docstring DSV102 reports exactly the
\* parameter names of the code that the docstring does not document, and
\* DSV101 exactly the documented names that are not parameters of the code,
\* with one diagnostic per name; for def f(x, y) with only y documented that
\* is one DSV102, for x, and no DSV101.
C22_Claim ==
    \A i \in 1..Compared :
        WasCompared(i) =>
            LET code == Range(DeclaredNames(tree[NodeOf(i)].args))
                documented == DocNames(doc_models[i])
            IN  /\ Range(SubjectsOf("DSV102", i)) = code \ documented
                /\ Range(SubjectsOf("DSV101", i)) = documented \ code
                /\ IsInjective(SubjectsOf("DSV102", i))
                /\ IsInjective(SubjectsOf("DSV101", i))

\* the type the form of a returned expression shows, NULL when it shows none
LiteralType(e) ==
    CASE e.kind = "Absent" -> "None"
      [] e.kind = "Constant" /\ e.fkind = "NoneType" -> "None"
      [] e.kind = "Constant" /\ e.fkind # "NoneType" -> e.fkind
      [] e.kind \in LiteralContainers -> ContainerTypeName(e.kind)
      [] OTHER -> NULL

\* the return statements of the i-th function whose type is resolved and is
\* not in the expected type set: the annotation of the code if there is one,
\* else the documented return type
OffendingReturns(i) ==
    LET f == NodeOf(i)
        m == doc_models[i]
        expected ==
            IF tree[f].expr.kind # "Absent"
            THEN <<normalize(unparse_annotation(tree[f].expr.name))>>
            ELSE IF m.returnDoc # <<>> /\ m.returnDoc[1].typeText # NULL
            THEN <<normalize(m.returnDoc[1].typeText)>>
            ELSE <<>>
    IN  {n \in ReturnsIn(OwnStatements(f)) :
            /\ expected # <<>>
            /\ LiteralType(tree[n].expr) # NULL
            /\ ~(normalize(LiteralType(tree[n].expr)) \subseteq expected[1])}

LinesOfRule(r, i) ==
    LET ds == SelectSeq(diagnostics, LAMBDA g : g.function = i /\ g.ruleId = r)
    IN  [k \in 1..Len(ds) |-> ds[k].line]

\* C23: DSV204 emits one diagnostic for each return statement whose inferred
\* type is resolved and is not a member of the expected type set (the
\* annotation of the code when there is one, else the documented return
\* type), at the line of that statement, and none for a return statement
\* whose type is unknown.
C23_OneDiagnosticPerOffendingReturn ==
    \A i \in 1..Compared :
        WasCompared(i) => LinesOfRule("DSV204", i) = SortedSeq(OffendingReturns(i))

\* a function without annotation, documented as returning str | None, that
\* returns 42, then storage[key], then None: the one DSV204 is for 42
C23_Witness ==
    /\ WasCompared(1)
    /\ tree[1].expr.kind = "Absent"
    /\ doc_models[1].returnDoc = <<ReturnDoc("Returns", "str | None")>>
    /\ Len(tree) = 5
    /\ tree[3] = [Stmt("Return", ConstantExpr("int"), NoArguments) EXCEPT !.parent = 1]
    /\ tree[4] = [Stmt("Return", SubscriptExpr, NoArguments) EXCEPT !.parent = 1]
    /\ tree[5] = [Stmt("Return", ConstantExpr("NoneType"), NoArguments) EXCEPT !.parent = 1]
    /\ SelectSeq(diagnostics, LAMBDA g : g.ruleId = "DSV204")
           = <<Diagnostic("DSV204", 1, "int", 3)>>

\* the body of the i-th function holds a yield or a yield from
IsGeneratorBody(i) == YieldsIn(OwnStatements(NodeOf(i))) # {}

HasReturnsSection(m) == m.returnDoc # <<>> /\ m.returnDoc[1].sectionKind = "Returns"

\* C24: DSV205 fires for every function whose body holds a yield and whose
\* docstring has a Returns section, with or without a Yields section beside
\* it, and for no function whose docstring has a Yields section only or no
\* return documentation.
C24_Claim ==
    \A i \in 1..Compared :
        WasCompared(i) =>
            /\ (IsGeneratorBody(i) /\ HasReturnsSection(doc_models[i]))
                   => Len(SubjectsOf("DSV205", i)) = 1
            /\ ~HasReturnsSection(doc_models[i]) => SubjectsOf("DSV205", i) = <<>>

\* the type text of a raised expression, by its form alone
ExceptionText(e) ==
    CASE DirectName(e) -> e.name
      [] e.kind = "Call" /\ e.fkind = "Attribute" -> "obj." \o e.name
      [] e.kind = "Call" /\ e.fkind = "Subscript" -> "obj[0]"
      [] e.kind = "Attribute" -> "obj." \o e.name
      [] e.kind = "Subscript" -> "obj[0]"

\* the raise statements of the i-th function that raise an expression
RaiseSites(i) ==
    {n \in RaisesIn(OwnStatements(NodeOf(i))) : tree[n].expr.kind # "Absent"}

RaisedTypes(i) == {ExceptionText(tree[n].expr) : n \in RaiseSites(i)}

\* the first raise statement of the i-th function that raises type x
FirstRaiseOf(i, x) ==
    LET sites == {n \in RaiseSites(i) : ExceptionText(tree[n].expr) = x}
    IN  CHOOSE n \in sites : \A k \in sites : n <= k

EffectClasses(i) ==
    LET own == OwnStatements(NodeOf(i))
    IN  {c \in {"IO"} : \E n \in own : HasIOCall(n)}
            \cup {c \in {"GlobalState"} : \E n \in own : DeclaresOuterName(n)}

\* C26: DSV401 is evaluated for the I/O class and for the global-state class
\* apart: it emits one diagnostic for each class that the code of the
\* function shows and that no side-effect note of the docstring covers, two
\* when both classes are undocumented, and for a function with file I/O and
\* no global declaration whose docstring notes a global-state modification
\* only it emits exactly one, for I/O.
C26_OnePerUndocumentedClass ==
    \A i \in 1..Compared :
        WasCompared(i) =>
            LET notes == doc_models[i].sideEffectNoteKinds
                classes == SubjectsOf("DSV401", i)
            IN  /\ IsInjective(classes)
                /\ Range(classes) = EffectClasses(i) \ notes
                /\ (EffectClasses(i) = {"IO", "GlobalState"} /\ notes = {})
                       => Len(classes) = 2
                /\ (EffectClasses(i) = {"IO"} /\ notes = {"GlobalState"})
                       => classes = <<"IO">>

\* a function that calls open() and declares nothing global, with a note on
\* global state only: the one diagnostic is DSV401 for I/O
C26_Witness ==
    /\ WasCompared(1)
    /\ Len(tree) = 3
    /\ tree[3].kind = "Expr" /\ tree[3].expr = CallExpr("Name", "open")
    /\ doc_models[1].sideEffectNoteKinds = {"GlobalState"}
    /\ diagnostics = <<Diagnostic("DSV401", 1, "IO", 0)>>

InitialContext ==
    [current_function |-> NoFunction, return_statements |-> <<>>,
     exceptions |-> <<>>, has_io |-> FALSE, has_global_mods |-> FALSE,
     lists_of |-> NoFunction]

\* the step enters the visit of a function definition
EntersFunction ==
    /\ Visiting /\ Len(stack') = Len(stack) + 1
    /\ tree[stack'[Len(stack')].node].kind \in FunctionKinds

\* the step leaves the visit of a function definition
LeavesFunction ==
    /\ Visiting /\ Len(stack') = Len(stack) - 1
    /\ Top.node # Module
    /\ tree[Top.node].kind \in FunctionKinds

\* what a step does to the function context
BalancedStep ==
    /\ EntersFunction => stack'[Len(stack')].prev = SavedContext
    /\ (Visiting /\ stack' # <<>>) =>
           \A k \in 1..Len(stack) :
               k <= Len(stack') => stack'[k].prev = stack[k].prev
    /\ LeavesFunction =>
           /\ current_function' = Top.prev.current_function
           /\ return_statements' = Top.prev.return_statements
           /\ exceptions' = Top.prev.exceptions
           /\ has_io' = Top.prev.has_io
           /\ has_global_mods' = Top.prev.has_global_mods
           /\ lists_of' = Top.prev.lists_of
    /\ (Visiting /\ pc' = "visit" /\ current_function = NoFunction /\ ~EntersFunction) =>
           UNCHANGED <<context_vars, functions>>

\* the traversal of the file is over and was not cut short
Traversed == (pc = "visit" /\ stack = <<>>) \/ (Finished /\ result.success)

\* C27: the function context of the visitor is a balanced stack: entering a
\* definition saves the context in force, nothing changes what is saved
\* while the definition is visited, and leaving the definition restores
\* exactly that current function, return list, raise list and pair of
\* flags; after the traversal of a file current_function is None and the
\* accumulators are in their initial state; while current_function is None
\* a return, a raise, a call or a global declaration changes no accumulator
\* and no descriptor.
C27_BalancedContext ==
    /\ [](Traversed => SavedContext = InitialContext)
    /\ [][BalancedStep]_vars

\* a function has been visited and its descriptor appended, and the visit is
\* now at a return statement of the module that stands after it: the
\* context is the initial one
C27_Witness ==
    /\ Visiting /\ Len(stack) = 1
    /\ functions # <<>>
    /\ functions[1].return_statements # <<>>
    /\ Top.last # Module
    /\ tree[Top.last].kind = "Return"
    /\ SavedContext = InitialContext

\* the step leaves every descriptor that is in the list as it is
KeepsDescriptors ==
    (Visiting /\ pc' = "visit") =>
        \A i \in 1..Len(functions) :
            i <= Len(functions') /\ functions'[i] = functions[i]

\* C28: a descriptor is final once it is appended: no later step of the
\* traversal, be it the visit of a statement of the enclosing function that
\* stands after the nested definition or the visit of a later definition,
\* changes its return list, raise list, flags or parameters.
C28_FinalOnceAppended == [][KeepsDescriptors]_vars

\* the descriptor of a nested function is in the list, and the visit has
\* since recorded a return statement of the enclosing function
C28_Witness ==
    /\ Visiting
    /\ current_function # NoFunction
    /\ \E i \in 1..Len(functions) :
        /\ Inside(functions[i].line_start, current_function)
        /\ \E k \in 1..Len(return_statements) :
               return_statements[k].line > functions[i].line_start

\* the last source line of statement n, lines counted from 1
LastLine(n) ==
    CHOOSE l \in Lines : /\ l = n \/ Inside(l, n)
                         /\ \A k \in Lines : Inside(k, n) => k <= l

\* C29: in every descriptor of the output the docstring text and the
\* docstring range are both present or both absent; a range that is present
\* runs from the line of the docstring to its last line, both counted from 0
\* (the source line counted from 1, minus one), the start not after the end;
\* the range of the function is converted the same way, from the line of
\* the def to the last line of the body.
C29_DocstringAndRange ==
    (pc = "returned" /\ result.success) =>
        /\ Len(result.functions) = Cardinality(Defs)
        /\ \A i \in 1..Len(result.functions) :
            LET d == result.functions[i]
            IN  /\ (d.docstring = NULL) = (d.docstringRange = <<>>)
                /\ d.range_start_line <= d.range_end_line
                /\ d.docstringRange # <<>> =>
                       d.docstringRange[1] <= d.docstringRange[2]
                /\ \E f \in Defs :
                    /\ d.range_start_line = f - 1
                    /\ d.range_end_line = LastLine(f) - 1
                    /\ d.docstringRange # <<>> =>
                        /\ HasDocstringStatement(f)
                        /\ d.docstringRange[1] = FirstChild(tree, f) - 1
                        /\ d.docstringRange[2] = LastLine(FirstChild(tree, f)) - 1

\* a function whose docstring takes several lines: its docstring range and
\* its own range both end after they start; the other function of the file
\* has neither docstring nor docstring range
C29_Witness ==
    /\ pc = "returned" /\ result.success
    /\ \E i, j \in 1..Len(result.functions) :
        /\ result.functions[i].docstring = "text"
        /\ result.functions[i].docstringRange[1] < result.functions[i].docstringRange[2]
        /\ result.functions[i].docstringRange[2] < result.functions[i].range_end_line
        /\ result.functions[j].docstring = NULL
        /\ result.functions[j].docstringRange = <<>>

\* C30: for one function at most one of DSV202, DSV203 and DSV205 fires,
\* and a function whose body holds a yield gets neither DSV202 nor DSV203.
C30_Claim ==
    \A i \in 1..Compared :
        WasCompared(i) =>
            /\ Len(SubjectsOf("DSV202", i)) + Len(SubjectsOf("DSV203", i))
                   + Len(SubjectsOf("DSV205", i)) <= 1
            /\ IsGeneratorBody(i) =>
                   SubjectsOf("DSV202", i) = <<>> /\ SubjectsOf("DSV203", i) = <<>>

====
